---- MODULE Spec2Model ----
(***************************************************************************)
(* Line-oriented analyzers of the Morpheus script language server: the     *)
(* document formatter (connection.onDocumentFormatting), the validator     *)
(* (validateText) and the parser of the external checker's report          *)
(* (validateWithSexec), and the server's validation runs                   *)
(* (validateTextDocument).  Text is modelled character by character: a line *)
(* is a sequence of one-character strings, and every regular expression    *)
(* and string method the code applies is an operator over such sequences.  *)
(***************************************************************************)
EXTENDS Integers, Sequences, FiniteSets, TLC

VARIABLES
    lines,              \* the document (or report) split into lines
    i,                  \* loop index of the running pass (0-based, as in the code)
    pc,                 \* position of the running handler
    options,            \* params.options of the formatting request
    formattingEnable,   \* settings.morpheus.formatting.enable
    indentLevel,
    indentStack,
    tempIndent,
    lastLineWasLabel,
    effectiveIndent,    \* the value rendered for the last non-label line
    edits,
    run,                \* 1: first formatting request, 2: request on the edited text,
                        \* 3: request on the same text indented differently
    formatted,          \* the text the first request left, <<>> before a third
    commands,           \* the keys of the command table
    documentUri,
    hasDiagnosticRelatedInfo,
    bracketBalance,
    parenBalance,
    squareBracketBalance,
    definedLabels,      \* a Set in insertion order
    threadCalls,
    inBlockComment,
    diagnostics,
    fileName,           \* base name of the checked document
    environment,        \* what validateWithSexec finds outside the server
    output,             \* what the checker process wrote, as lines
    tempFileExists,
    currentFile,
    currentLine,
    currentSeverity,
    documentVersion,    \* version of the open document's text, 0 before it is opened
    settings,           \* the morpheus.validation settings in effect
    validations,        \* the calls of validateTextDocument, in the order of their events
    sent,               \* the sendDiagnostics notifications, in the order sent
    tempFileText,       \* version of the text written to the temporary file
    exitListeners,      \* number of process.on('exit', cleanupTempFile) registrations
    hostExited,
    hasConfigurationCapability,
    loadCommandsPc,     \* position of loadCommands: "configuration" while it awaits
    globalSettings,     \* whether the object has the key morpheus, and its validation part
    documents,          \* the open documents
    documentSettings    \* the keys of the settings cache

fvars == <<options, formattingEnable, indentLevel, indentStack, tempIndent,
           lastLineWasLabel, effectiveIndent, edits, run, formatted>>
vinputs == <<commands, documentUri, hasDiagnosticRelatedInfo>>
vvars == <<vinputs, bracketBalance, parenBalance, squareBracketBalance,
           definedLabels, threadCalls, inBlockComment, diagnostics>>
sinputs == <<fileName, environment, output>>
svars == <<sinputs, tempFileExists, currentFile, currentLine, currentSeverity>>
dvars == <<documentVersion, settings, validations, sent, tempFileText, exitListeners,
           hostExited, hasConfigurationCapability, loadCommandsPc, globalSettings,
           documents, documentSettings>>
vars == <<lines, i, pc, fvars, vvars, svars, dvars>>

(***************************************************************************)
(* Bounds of the model.                                                    *)
(***************************************************************************)
MaxLines == 3
MaxTabSize == 2
MaxValidatorLines == 2
MaxReportLines == 2
MaxEdits == 2           \* content changes of the open document, the first being its opening
MaxValidations == 2     \* calls of validateTextDocument

(***************************************************************************)
(* Characters and the string methods the code uses.                        *)
(***************************************************************************)
LowerCase == <<"a", "b", "c", "d", "e", "f", "g", "h", "i", "j", "k", "l", "m", "n", "o", "p", "q", "r", "s", "t", "u", "v", "w", "x", "y", "z">>    \* abcdefghijklmnopqrstuvwxyz
UpperCase == <<"A", "B", "C", "D", "E", "F", "G", "H", "I", "J", "K", "L", "M", "N", "O", "P", "Q", "R", "S", "T", "U", "V", "W", "X", "Y", "Z">>    \* ABCDEFGHIJKLMNOPQRSTUVWXYZ
Digits == {"0", "1", "2", "3", "4", "5", "6", "7", "8", "9"}
Letters == {LowerCase[k] : k \in 1..26} \cup {UpperCase[k] : k \in 1..26}

Max(a, b) == IF a >= b THEN a ELSE b
Min(a, b) == IF a <= b THEN a ELSE b

\* \s of a regular expression, and the characters trim() removes
IsSpace(c) == c \in {" ", "\t"}
\* [a-zA-Z0-9_], the \w of a regular expression
WordChars == Letters \cup Digits \cup {"_"}
IsWordChar(c) == c \in WordChars
\* [a-zA-Z_]
IdentStartChars == Letters \cup {"_"}
IsIdentStart(c) == c \in IdentStartChars

\* the lower-case letter of every upper-case letter
LowerOfUpper ==
    [c \in {UpperCase[k] : k \in 1..26} |-> LowerCase[CHOOSE k \in 1..26 : UpperCase[k] = c]]
ToLowerChar(c) == IF c \in DOMAIN LowerOfUpper THEN LowerOfUpper[c] ELSE c
ToLowerCase(s) == [k \in 1..Len(s) |-> ToLowerChar(s[k])]

TrimStart(s) ==
    LET keep == {k \in 1..Len(s) : ~IsSpace(s[k])}
    IN  IF keep = {} THEN <<>>
        ELSE SubSeq(s, CHOOSE k \in keep : \A m \in keep : k <= m, Len(s))
TrimEnd(s) ==
    LET keep == {k \in 1..Len(s) : ~IsSpace(s[k])}
    IN  IF keep = {} THEN <<>>
        ELSE SubSeq(s, 1, CHOOSE k \in keep : \A m \in keep : k >= m)
Trim(s) == TrimEnd(TrimStart(s))

StartsWith(s, p) == Len(s) >= Len(p) /\ SubSeq(s, 1, Len(p)) = p
EndsWith(s, p) == Len(s) >= Len(p) /\ SubSeq(s, Len(s) - Len(p) + 1, Len(s)) = p
\* s.substring(n): the characters from 0-based position n on
Substring(s, n) == SubSeq(s, Min(n, Len(s)) + 1, Len(s))
\* s.indexOf(p): 0-based position of the first occurrence, -1 if none
IndexOf(s, p) ==
    LET at == {k \in 0..(Len(s) - Len(p)) : SubSeq(s, k + 1, k + Len(p)) = p}
    IN  IF at = {} THEN -1 ELSE CHOOSE k \in at : \A m \in at : k <= m
Includes(s, p) == IndexOf(s, p) # -1
\* c.repeat(n)
Repeat(c, n) == [k \in 1..n |-> c]
\* number of occurrences of the character c: (s.match(/c/g) || []).length
CountChar(s, c) == Cardinality({k \in 1..Len(s) : s[k] = c})
\* \b after the first n characters of s (n >= 1 and s[n] a word character)
WordEndsAt(s, n) == Len(s) = n \/ ~IsWordChar(s[n + 1])
\* keyword followed by \b at the start of s
StartsWithWord(s, w) == StartsWith(s, w) /\ WordEndsAt(s, Len(w))

(***************************************************************************)
(* The formatter: connection.onDocumentFormatting.                         *)
(***************************************************************************)
\* /^\s*(case\b|default\s*:)/
IsCase(line) ==
    LET t == TrimStart(line)
    IN  \/ StartsWithWord(t, <<"c", "a", "s", "e">>)    \* case
        \/ /\ StartsWith(t, <<"d", "e", "f", "a", "u", "l", "t">>)    \* default
           /\ StartsWith(TrimStart(Substring(t, 7)), <<":">>)

IsBlankNever(line) == FALSE

\* line.length === 0 of the trimmed line
IsBlank(line) == Len(line) = 0

\* /^(end|End|END)$/
IsEnd(line) == line \in {<<"e", "n", "d">>, <<"E", "n", "d">>, <<"E", "N", "D">>}

\* /^\s*(?!(case|default)\b)[a-zA-Z0-9_]+.*:\s*(?:\/\/.*)?$/
IsLabel(line) ==
    LET t == TrimStart(line)
    IN  /\ ~StartsWithWord(t, <<"c", "a", "s", "e">>)    \* case
        /\ ~StartsWithWord(t, <<"d", "e", "f", "a", "u", "l", "t">>)    \* default
        /\ Len(t) >= 1
        /\ IsWordChar(t[1])
        /\ \E p \in 2..Len(t) :
              /\ t[p] = ":"
              /\ LET rest == TrimStart(Substring(t, p))
                 IN  rest = <<>> \/ StartsWith(rest, <<"/", "/">>)

\* line.replace(/\/\/.*$/, '')
StripLineComment(line) ==
    IF Includes(line, <<"/", "/">>) THEN SubSeq(line, 1, IndexOf(line, <<"/", "/">>)) ELSE line

\* /^\s*(if|while|for|else|elif)\b/
IsControl(cleanLine) ==
    LET t == TrimStart(cleanLine)
    IN  \E w \in {<<"i", "f">>, <<"w", "h", "i", "l", "e">>, <<"f", "o", "r">>, <<"e", "l", "s", "e">>, <<"e", "l", "i", "f">>} : StartsWithWord(t, w)    \* if | while | for | else | elif

IndentChar(opts) == IF opts.insertSpaces THEN " " ELSE "\t"
IndentSize(opts) == IF opts.insertSpaces THEN opts.tabSize ELSE 1

CaseLevelAtBrace(isCase, level, stack) ==
    IF isCase /\ Len(stack) > 0 THEN stack[Len(stack)] ELSE level

CaseLevelUnchanged(isCase, level, stack) == level

\* case/default: re-synchronise the level with the enclosing brace block
CaseLevel(isCase, level, stack) ==
    IF isCase /\ Len(stack) > 0 THEN stack[Len(stack)] + 1 ELSE level

CloseBraceLevelUnclamped(level, stack) ==
    IF Len(stack) > 0 THEN stack[Len(stack)] ELSE level - 1

\* level after a line starting with '}'
CloseBraceLevel(level, stack) ==
    IF Len(stack) > 0 THEN stack[Len(stack)] ELSE Max(0, level - 1)

PopStackKeeping(closes, stack) == stack

\* indentStack.pop() on a line starting with '}', if there is an entry
PopStack(closes, stack) ==
    IF closes /\ Len(stack) > 0 THEN SubSeq(stack, 1, Len(stack) - 1) ELSE stack

\* level after a line that is exactly 'end'
EndLevel(level) == Max(0, level - 1)

LabelCommentIndentFull(level) == level

\* indent of a comment right after a label
LabelCommentIndent(level) == Max(0, level - 1)

\* indentChar.repeat(Math.max(0, effectiveIndent) * indentSize)
RenderIndent(opts, eff) == Repeat(IndentChar(opts), Max(0, eff) * IndentSize(opts))

NewTextOfIndentedLine(currentIndent, originalLine) ==
    IF Len(TrimStart(originalLine)) = Len(originalLine) THEN originalLine
    ELSE currentIndent \o TrimStart(originalLine)

NewTextKeepingIndent(currentIndent, originalLine) == currentIndent \o originalLine

\* currentIndent + originalLine.trimStart()
NewText(currentIndent, originalLine) == currentIndent \o TrimStart(originalLine)

EditSizedByNewText(n, originalLine, newText) ==
    [line |-> n, startChar |-> 0, endChar |-> Len(newText), newText |-> newText]

\* { range: Range.create({line: i, character: 0}, {line: i, character: lines[i].length}), newText }
Edit(n, originalLine, newText) ==
    [line |-> n, startChar |-> 0, endChar |-> Len(originalLine), newText |-> newText]

(***************************************************************************)
(* Documents and options handed to the formatter.                          *)
(***************************************************************************)
FormatVocabulary ==
    { <<" ">>,
      <<"f", "o", "o", ":">>,    \* foo:
      <<"{">>,
      <<"\t", "}">>,
      <<"c", "a", "s", "e", " ", "1", ":">>,    \* case 1:
      <<"\t", "b", "a", "r", " ">>,    \* \tbar 
      <<"e", "n", "d">>,
      <<"i", "f", " ", "x">>,    \* if x
      <<" ", " ", "/", "/", " ", "c">> }    \*   // c

SwitchExample == << <<"f", "o", "o", ":">>, <<"{">>, <<"c", "a", "s", "e", " ", "1", ":">>, <<"b", "a", "r">>, <<"}">> >>    \* foo: | { | case 1: | bar | }

RECURSIVE SeqsUpTo(_, _)
SeqsUpTo(S, n) ==
    IF n = 0 THEN {<<>>}
    ELSE LET shorter == SeqsUpTo(S, n - 1)
         IN  shorter \cup {Append(d, x) : d \in {e \in shorter : Len(e) = n - 1}, x \in S}

\* a default clause after a label inside braces; `end` in mixed case; labels
\* that begin with a control keyword or end their code with a brace; comments
\* around the first statement after a label; a block closed and reopened
FormatExamples ==
    { << <<"{">>, <<"f", "o", "o", ":">>, <<"d", "e", "f", "a", "u", "l", "t", " ", ":", " ", "/", "/", " ", "x">>, <<"b", "a", "r">>, <<"}">> >>,    \* { | foo: | default : // x | bar | }
      << <<"f", "o", "o", ":">>, <<"b", "a", "r">>, <<"E", "n", "D">> >>,    \* foo: | bar | EnD
      << <<"e", "l", "s", "e", ":">>, <<"b", "a", "r">> >>,    \* else: | bar
      << <<"e", "l", "s", "e", ":">>, <<"/", "/", " ", "c">>, <<"b", "a", "r">> >>,    \* else: | // c | bar
      << <<"f", "o", "o", " ", "{", " ", "/", "/", " ", "a", ":">>, <<"b", "a", "r">> >>,    \* foo { // a: | bar
      << <<"f", "o", "o", ":">>, <<"/", "/", " ", "c">>, <<" ">>, <<"/", "/", " ", "d">>, <<"b", "a", "r">>, <<"/", "/", " ", "e">> >>,    \* foo: | // c |   | // d | bar | // e
      << <<"i", "f", " ", "x", " ", "{">>, <<"b", "a", "r">>, <<"}", " ", "e", "l", "s", "e", " ", "{">>, <<"b", "a", "r">>, <<"}">> >>,    \* if x { | bar | } else { | bar | }
      << <<"I", "F", " ", "x">>, <<"b", "a", "r">> >>,    \* IF x | bar
      << <<"i", "f", " ", "x">>, <<"}", " ", "e", "l", "s", "e">>, <<"{">>, <<"b", "a", "r">> >> }    \* if x | } else | { | bar

FormatDocuments ==
    (SeqsUpTo(FormatVocabulary, MaxLines) \ {<<>>}) \cup {SwitchExample} \cup FormatExamples

\* tabSize is read only when insertSpaces is set
FormattingOptions ==
    {[insertSpaces |-> FALSE, tabSize |-> MaxTabSize]}
        \cup [insertSpaces : {TRUE}, tabSize : 1..MaxTabSize]

\* state of a fresh call of the handler
FormatStart ==
    /\ i = 0
    /\ indentLevel = 0
    /\ indentStack = <<>>
    /\ tempIndent = 0
    /\ lastLineWasLabel = FALSE
    /\ effectiveIndent = 0
    /\ edits = <<>>

\* the validator takes no part in a formatting request
ValidatorLocalsIdle ==
    /\ documentUri = ""
    /\ hasDiagnosticRelatedInfo = FALSE
    /\ bracketBalance = 0
    /\ parenBalance = 0
    /\ squareBracketBalance = 0
    /\ definedLabels = <<>>
    /\ threadCalls = <<>>
    /\ inBlockComment = FALSE
    /\ diagnostics = <<>>

ValidatorIdle == commands = {} /\ ValidatorLocalsIdle

\* no external check takes part in a formatting request or in validateText
SexecIdle ==
    /\ fileName = <<>>
    /\ environment = [sexecExists |-> FALSE, scheme |-> "file", writable |-> FALSE,
                      spawns |-> FALSE]
    /\ output = <<>>
    /\ tempFileExists = FALSE
    /\ currentFile = <<>>
    /\ currentLine = 0
    /\ currentSeverity = "null"

\* the settings the server starts with
defaultSettings == [enable |-> TRUE, sexecPath |-> "", trigger |-> "onSave"]

\* globalSettings as the server starts with it: defaultSettings has the key
\* morpheus
defaultGlobalSettings == [hasMorpheus |-> TRUE, validation |-> defaultSettings]

\* no document is open and no validation has been requested
ServerIdle ==
    /\ documentVersion = 0
    /\ settings = defaultSettings
    /\ validations = <<>>
    /\ sent = <<>>
    /\ tempFileText = 0
    /\ exitListeners = 0
    /\ hostExited = FALSE
    /\ hasConfigurationCapability = FALSE
    /\ loadCommandsPc = "done"
    /\ globalSettings = defaultGlobalSettings
    /\ documents = {}
    /\ documentSettings = {}

InitFormat ==
    /\ ValidatorIdle
    /\ SexecIdle
    /\ ServerIdle
    /\ lines \in FormatDocuments
    /\ options \in FormattingOptions
    /\ formattingEnable \in BOOLEAN
    /\ pc = "format"
    /\ run = 1
    /\ formatted = <<>>
    /\ FormatStart

\* if (!settings.morpheus.formatting.enable) return [];
FormatDisabled ==
    /\ pc = "format"
    /\ ~formattingEnable
    /\ pc' = "done"
    /\ UNCHANGED <<dvars, lines, i, fvars, vvars, svars>>

\* one iteration of the loop over the lines
FormatLine ==
    /\ pc = "format"
    /\ formattingEnable
    /\ i < Len(lines)
    /\ LET originalLine == lines[i + 1]
           line == Trim(originalLine)
           isCase == IsCase(line)
           closes == StartsWith(line, <<"}">>)
           level1 == CaseLevel(isCase, indentLevel, indentStack)
           level2 == IF closes THEN CloseBraceLevel(level1, indentStack) ELSE level1
           stack2 == PopStack(closes, indentStack)
           temp2 == IF closes THEN 0 ELSE tempIndent
           level3 == IF IsEnd(line) /\ temp2 = 0 /\ Len(stack2) = 0
                     THEN EndLevel(level2) ELSE level2
           isLabel == IsLabel(line)
           isComment == StartsWith(line, <<"/", "/">>)
           eff1 == IF isComment /\ lastLineWasLabel
                   THEN LabelCommentIndent(level3) ELSE level3
           eff == IF StartsWith(line, <<"{">>) THEN eff1 ELSE eff1 + temp2
           currentIndent == IF isLabel THEN <<>> ELSE RenderIndent(options, eff)
           level4 == IF isLabel THEN level3 + 1 ELSE level3
           temp4 == IF isLabel THEN 0 ELSE temp2
           newText == NewText(currentIndent, originalLine)
           cleanLine == Trim(StripLineComment(line))
           opens == EndsWith(cleanLine, <<"{">>)
       IN  IF IsBlank(line)
           THEN /\ i' = i + 1
                /\ UNCHANGED <<dvars, lines, pc, fvars, vvars, svars>>
           ELSE /\ i' = i + 1
                /\ lastLineWasLabel' =
                      IF isLabel THEN TRUE
                      ELSE IF isComment THEN lastLineWasLabel ELSE FALSE
                /\ effectiveIndent' = IF isLabel THEN 0 ELSE eff
                /\ edits' = IF originalLine # newText
                            THEN Append(edits, Edit(i, originalLine, newText))
                            ELSE edits
                /\ indentStack' = IF opens THEN Append(stack2, level4) ELSE stack2
                /\ indentLevel' = IF opens \/ isCase THEN level4 + 1 ELSE level4
                /\ tempIndent' = IF opens THEN 0
                                 ELSE IF isCase THEN temp4
                                 ELSE IF IsControl(cleanLine) THEN temp4 + 1
                                 ELSE 0
                /\ UNCHANGED <<dvars, lines, pc, options, formattingEnable, run, formatted,
                               vvars, svars>>

\* return edits;
FormatReturn ==
    /\ pc = "format"
    /\ formattingEnable
    /\ i = Len(lines)
    /\ pc' = "done"
    /\ UNCHANGED <<dvars, lines, i, fvars, vvars, svars>>

\* the text of line n after the host has applied the edits
ApplyEditsToLine(doc, es, n) ==
    LET mine == {k \in 1..Len(es) : es[k].line = n}
    IN  IF mine = {} THEN doc[n + 1]
        ELSE LET e == es[CHOOSE k \in mine : TRUE]
             IN  SubSeq(doc[n + 1], 1, e.startChar) \o e.newText
                   \o SubSeq(doc[n + 1], e.endChar + 1, Len(doc[n + 1]))
ApplyEdits(doc, es) == [n \in 1..Len(doc) |-> ApplyEditsToLine(doc, es, n - 1)]

\* the host applies the returned edits and requests formatting again
Reformat ==
    /\ pc = "done"
    /\ run = 1
    /\ lines' = ApplyEdits(lines, edits)
    /\ run' = 2
    /\ pc' = "format"
    /\ i' = 0
    /\ indentLevel' = 0
    /\ indentStack' = <<>>
    /\ tempIndent' = 0
    /\ lastLineWasLabel' = FALSE
    /\ effectiveIndent' = 0
    /\ edits' = <<>>
    /\ UNCHANGED <<dvars, options, formattingEnable, formatted, vvars, svars>>

NextFormat == FormatDisabled \/ FormatLine \/ FormatReturn \/ Reformat

SpecFormat == InitFormat /\ [][NextFormat]_vars

(***************************************************************************)
(* Properties of the formatter.                                            *)
(***************************************************************************)
LeadingWhitespace(s) == Len(s) - Len(TrimStart(s))
TabOptions == [insertSpaces |-> FALSE, tabSize |-> MaxTabSize]
FirstRunDone == pc = "done" /\ run = 1 /\ formattingEnable
SecondRunDone == pc = "done" /\ run = 2 /\ formattingEnable

\* C1: formatting the text obtained by applying the formatter's edits, with
\* the same options, returns an empty edit list.
C1_Idempotent == (pc = "done" /\ run = 2) => edits = <<>>

\* a second request has finished on a text that the first request re-indented
C1_Witness ==
    /\ SecondRunDone
    /\ Len(lines) = 3
    /\ lines[3] = <<" ", " ", "}">>

\* C2: every edit replaces one whole original line (character 0 to the
\* line's length), no line has two edits, the replacement differs from the
\* original line in leading whitespace only, and no edit adds a line break.
C2_EditsReplaceLeadingWhitespaceOnly ==
    run = 1 =>
        /\ \A k \in 1..Len(edits) :
              LET e == edits[k]
              IN  /\ e.line \in 0..(Len(lines) - 1)
                  /\ e.startChar = 0
                  /\ e.endChar = Len(lines[e.line + 1])
                  /\ TrimStart(e.newText) = TrimStart(lines[e.line + 1])
                  /\ \A c \in 1..Len(e.newText) : e.newText[c] \notin {"\n", "\r"}
        /\ \A k, m \in 1..Len(edits) : edits[k].line = edits[m].line => k = m
        /\ Len(ApplyEdits(lines, edits)) = Len(lines)

\* a request that returned edits for several lines, one with trailing whitespace
C2_Witness ==
    /\ FirstRunDone
    /\ Len(edits) >= 2
    /\ \E k \in 1..Len(edits) : lines[edits[k].line + 1] = <<"\t", "b", "a", "r", " ">>    \* \tbar 

\* C3: after any prefix of any line sequence the indent level, the temporary
\* indent, every value on the indent stack and the rendered indent are >= 0.
C3_IndentNeverNegative ==
    /\ indentLevel >= 0
    /\ tempIndent >= 0
    /\ effectiveIndent >= 0
    /\ \A k \in 1..Len(indentStack) : indentStack[k] >= 0

\* an unmatched '}' and a surplus 'end' have been processed at level 0
C3_Witness ==
    /\ pc = "format"
    /\ i = 2
    /\ Trim(lines[1]) = <<"}">>
    /\ Trim(lines[2]) = <<"e", "n", "d">>
    /\ indentLevel = 0

\* indent levels of the formatted switch example, one tab per level
SwitchExampleFormatted == ApplyEdits(lines, edits)
SwitchExampleDone == FirstRunDone /\ lines = SwitchExample /\ options = TabOptions

\* C4 as stated: in foo: / { / case 1: / bar / } with one tab per level, bar
\* is exactly two levels deeper than foo: and } is level with {.
C4_BarTwoDeeperThanLabel ==
    SwitchExampleDone =>
        LET out == SwitchExampleFormatted
        IN  /\ LeadingWhitespace(out[4]) = LeadingWhitespace(out[1]) + 2
            /\ LeadingWhitespace(out[5]) = LeadingWhitespace(out[2])

\* C4 amended: bar is exactly three levels deeper than foo: (one for the
\* label, one for the brace, one for the case), two deeper than the { line,
\* and } is level with {.
C4_BarThreeDeeperThanLabel ==
    SwitchExampleDone =>
        LET out == SwitchExampleFormatted
        IN  /\ LeadingWhitespace(out[1]) = 0
            /\ LeadingWhitespace(out[4]) = LeadingWhitespace(out[1]) + 3
            /\ LeadingWhitespace(out[4]) = LeadingWhitespace(out[2]) + 2
            /\ LeadingWhitespace(out[5]) = LeadingWhitespace(out[2])
            /\ \A n \in 1..5 : TrimStart(out[n]) = SwitchExample[n]

C4_Witness == SwitchExampleDone /\ Len(edits) = 4

\* the handler is about to process a line that is not blank
FormatStep == pc = "format" /\ formattingEnable /\ i < Len(lines) /\ Trim(lines[i + 1]) # <<>>
\* that line, trimmed
CurrentLine == Trim(lines[i + 1])
StackTop == indentStack[Len(indentStack)]

\* a case/default line is rendered at the level of the stack top plus one (at
\* the unchanged level with an empty stack), plus the pending temporary
\* indent, and leaves the level one higher than that
CaseStep ==
    (FormatStep /\ IsCase(CurrentLine)) =>
        LET level == IF indentStack # <<>> THEN StackTop + 1 ELSE indentLevel
        IN  /\ effectiveIndent' = level + tempIndent
            /\ indentLevel' = level + 1

\* C26: on a case or default line with a non-empty indent stack the level is
\* set to the level at the top of the stack plus one before the line is
\* rendered, whatever it was, and is one higher after the line; with an empty
\* stack the level is unchanged before rendering.
C26_CaseLevelFromStackTop == [][CaseStep]_vars

\* a default clause has been processed inside braces after a label had
\* raised the level to two above the brace
C26_Witness ==
    /\ pc = "format"
    /\ i = 3
    /\ lines[2] = <<"f", "o", "o", ":">>    \* foo:
    /\ lines[3] = <<"d", "e", "f", "a", "u", "l", "t", " ", ":", " ", "/", "/", " ", "x">>    \* default : // x
    /\ indentStack = <<0>>
    /\ effectiveIndent = 1
    /\ indentLevel = 2

\* the line with its line comment removed ends with an opening brace
OpensBlock(line) == EndsWith(Trim(StripLineComment(line)), <<"{">>)

\* a line starting with a closing brace pops the stack and takes the popped
\* level, or the level minus one (not below zero) with an empty stack; it is
\* rendered at that level and no temporary indent survives it
CloseBraceStep ==
    (FormatStep /\ StartsWith(CurrentLine, <<"}">>)) =>
        LET level == IF indentStack # <<>> THEN StackTop ELSE Max(0, indentLevel - 1)
            rest == IF indentStack # <<>>
                    THEN SubSeq(indentStack, 1, Len(indentStack) - 1) ELSE <<>>
        IN  /\ effectiveIndent' = level
            /\ tempIndent' = 0
            /\ IF OpensBlock(CurrentLine)
               THEN indentStack' = Append(rest, level) /\ indentLevel' = level + 1
               ELSE indentStack' = rest /\ indentLevel' = level
\* a line ending with an opening brace pushes the level in effect on it,
\* above the entries already there
OpenBraceStep ==
    (FormatStep /\ OpensBlock(CurrentLine) /\ ~StartsWith(CurrentLine, <<"}">>)) =>
        /\ indentStack' = Append(indentStack, indentLevel' - 1)
        /\ StartsWith(CurrentLine, <<"{">>) => effectiveIndent' = indentLevel' - 1
\* no other line changes the stack
OtherStep ==
    (FormatStep /\ ~OpensBlock(CurrentLine) /\ ~StartsWith(CurrentLine, <<"}">>)) =>
        indentStack' = indentStack

\* C27: a line starting with `}` pops a non-empty stack and sets the level to
\* the popped value, the level in effect when the matching line ending with
\* `{` was processed; with an empty stack the level becomes max(0, level - 1).
\* In both cases the temporary indent becomes 0 and the line is rendered at
\* the resulting level.
C27_CloseBraceRestoresLevel == [][CloseBraceStep /\ OpenBraceStep /\ OtherStep]_vars

\* `} else {` has closed the block opened at level 0 and opened another one
C27_Witness ==
    /\ pc = "format"
    /\ i = 3
    /\ lines[1] = <<"i", "f", " ", "x", " ", "{">>    \* if x {
    /\ lines[3] = <<"}", " ", "e", "l", "s", "e", " ", "{">>    \* } else {
    /\ indentStack = <<0>>
    /\ effectiveIndent = 0
    /\ indentLevel = 1
    /\ tempIndent = 0

\* the token `end` in any letter case
IsEndInAnyCase(line) == ToLowerCase(line) = <<"e", "n", "d">>

\* what the claim says of an `end` line, for the lines that pass isEnd
EndStepOf(isEnd) ==
    (FormatStep /\ isEnd) =>
        IF tempIndent = 0 /\ indentStack = <<>>
        THEN /\ effectiveIndent' = Max(0, indentLevel - 1)
             /\ indentLevel' = Max(0, indentLevel - 1)
        ELSE /\ effectiveIndent' = indentLevel + tempIndent
             /\ indentLevel' = indentLevel

\* C28 as stated: a line that is exactly `end` in any letter case, reached
\* with temporary indent 0 and an empty stack, lowers the level by one (not
\* below zero) before it is rendered; inside a brace block or with a pending
\* temporary indent it leaves the level unchanged.
C28_EndInAnyCaseLowersLevel == [][EndStepOf(IsEndInAnyCase(CurrentLine))]_vars

\* the same for the three spellings the code tests: end, End, END
EndInThreeSpellingsLowersLevel == [][EndStepOf(IsEnd(CurrentLine))]_vars

\* the text of the line being processed once the edits of the step are applied
RenderedLine == ApplyEditsToLine(lines, edits', i)

\* a label line is rendered at column 0
LabelRenderStep ==
    (FormatStep /\ IsLabel(CurrentLine)) =>
        /\ LeadingWhitespace(RenderedLine) = 0
        /\ TrimStart(RenderedLine) = TrimStart(lines[i + 1])
\* a label line raises the level by one and leaves no temporary indent
LabelLevelStep ==
    (FormatStep /\ IsLabel(CurrentLine)) =>
        /\ indentLevel' = indentLevel + 1
        /\ tempIndent' = 0

\* C29 as stated: every label line is rendered with no leading whitespace
\* whatever the nesting, raises the indent level by exactly one for the
\* lines that follow, and clears the temporary indent.
C29_LabelAtColumnZeroRaisesLevel == [][LabelRenderStep /\ LabelLevelStep]_vars

\* the part of C29 that holds for every label line, and the rest of it for
\* the label lines whose code neither begins with if, while, for, else or
\* elif nor ends with an opening brace
LabelAtColumnZero == [][LabelRenderStep]_vars
PlainLabelRaisesLevel ==
    [][(FormatStep /\ ~IsControl(Trim(StripLineComment(CurrentLine)))
           /\ ~OpensBlock(CurrentLine)) => LabelLevelStep]_vars

IsCommentLine(line) == StartsWith(line, <<"/", "/">>)
\* among the lines processed so far there is a label line with nothing but
\* blank lines and comment lines after it
LabelBeforeComments ==
    \E n \in 1..i :
        /\ IsLabel(Trim(lines[n]))
        /\ \A m \in (n + 1)..i :
              Trim(lines[m]) = <<>> \/ IsCommentLine(Trim(lines[m]))
\* the flag says exactly that
FlagFollowsLabel == formattingEnable => (lastLineWasLabel <=> LabelBeforeComments)
\* a comment line is rendered one level below the indent of a statement at
\* its place when the flag is set, and at that indent when it is not
CommentStep ==
    (FormatStep /\ IsCommentLine(CurrentLine)) =>
        /\ effectiveIndent' =
              IF lastLineWasLabel THEN Max(0, indentLevel - 1) + tempIndent
              ELSE indentLevel + tempIndent
        /\ LeadingWhitespace(RenderedLine) = effectiveIndent' * IndentSize(options)
        /\ indentLevel' = indentLevel

\* C30: a comment line that follows a label line with only blank or comment
\* lines in between is rendered one level shallower than the current indent
\* (not below zero); the first non-comment line after the label clears the
\* flag, and comment lines after it are rendered at the full current indent.
C30_CommentAfterLabelOneLevelUp == []FlagFollowsLabel /\ [][CommentStep]_vars

\* the second comment after a label, behind a blank line, is at level 0
C30_Witness ==
    /\ pc = "format"
    /\ i = 4
    /\ lines[1] = <<"f", "o", "o", ":">>    \* foo:
    /\ lines[3] = <<" ">>
    /\ lines[4] = <<"/", "/", " ", "d">>    \* // d
    /\ indentLevel = 1
    /\ effectiveIndent = 0
    /\ lastLineWasLabel

\* /^\s*(if|while|for|else|elif)\b/ with the letter case ignored
IsControlInAnyCase(cleanLine) == IsControl(ToLowerCase(cleanLine))
CleanLine == Trim(StripLineComment(CurrentLine))
\* the temporary indent with which the post-processing of the line starts
TempIndentOnLine ==
    IF StartsWith(CurrentLine, <<"}">>) \/ IsLabel(CurrentLine) THEN 0 ELSE tempIndent
\* a line rendered by the general rule: no closing brace, label, end, case
\* clause or comment
IsPlainLine(line) ==
    /\ ~StartsWith(line, <<"}">>)
    /\ ~IsLabel(line)
    /\ ~IsEnd(line)
    /\ ~IsCase(line)
    /\ ~IsCommentLine(line)

\* what C31 says of the lines that pass isControl
TempIndentStepOf(isControl) ==
    FormatStep =>
        /\ (isControl /\ ~OpensBlock(CurrentLine)) => tempIndent' = TempIndentOnLine + 1
        /\ OpensBlock(CurrentLine) => tempIndent' = 0
        /\ (~isControl /\ ~IsCase(CurrentLine)) => tempIndent' = 0
        /\ IsPlainLine(CurrentLine) =>
              effectiveIndent' =
                  IF StartsWith(CurrentLine, <<"{">>) THEN indentLevel
                  ELSE indentLevel + tempIndent

\* C31 as stated: a line whose comment-stripped text begins with if, while,
\* for, else or elif in any letter case and does not end with `{` raises the
\* temporary indent by one, and the next line is rendered that much deeper
\* unless it starts with `{`; a line that opens a block, or that is neither a
\* control line nor a case clause, leaves the temporary indent at 0.
C31_ControlLineRaisesTempIndent ==
    [][TempIndentStepOf(FormatStep /\ IsControlInAnyCase(CleanLine))]_vars

\* the same for the keywords written in lower case, as the code tests them
LowerCaseControlLineRaisesTempIndent ==
    [][TempIndentStepOf(FormatStep /\ IsControl(CleanLine))]_vars

\* the handler is about to process a blank line
BlankStep == pc = "format" /\ formattingEnable /\ i < Len(lines) /\ Trim(lines[i + 1]) = <<>>

\* C32: a blank line (empty or whitespace only) produces no edit and leaves
\* the indent level, the indent stack, the temporary indent and the
\* label-comment flag unchanged.
C32_BlankLineChangesNothing ==
    [][BlankStep =>
          /\ i' = i + 1
          /\ UNCHANGED <<edits, indentLevel, indentStack, tempIndent, lastLineWasLabel>>]_vars

\* a whitespace-only line has been passed with a temporary indent pending
C32_Witness ==
    /\ pc = "format"
    /\ i = 2
    /\ lines[1] = <<"i", "f", " ", "x">>    \* if x
    /\ lines[2] = <<" ">>
    /\ tempIndent = 1
    /\ edits = <<>>

(***************************************************************************)
(* The formatter on two indentations of one text.                          *)
(***************************************************************************)
TwinVocabulary ==
    { <<" ">>,
      <<"f", "o", "o", ":">>,    \* foo:
      <<"{">>,
      <<"\t", "}">>,
      <<" ", "i", "f", " ", "x">>,    \*  if x
      <<"\t", "b", "a", "r", " ">> }    \* \tbar 

TwinDocuments == SeqsUpTo(TwinVocabulary, MaxLines) \ {<<>>}

Indentations == { <<>>, <<" ">>, <<"\t", "\t">> }    \*   | \t\t

\* the document with the leading whitespace of its non-blank lines replaced:
\* odd lines get odd, even lines get even
Reindented(doc, odd, even) ==
    [n \in 1..Len(doc) |->
        IF Trim(doc[n]) = <<>> THEN doc[n]
        ELSE (IF n % 2 = 1 THEN odd ELSE even) \o TrimStart(doc[n])]

InitFormatTwin ==
    /\ ValidatorIdle
    /\ SexecIdle
    /\ ServerIdle
    /\ lines \in TwinDocuments
    /\ options \in FormattingOptions
    /\ formattingEnable \in BOOLEAN
    /\ pc = "format"
    /\ run = 1
    /\ formatted = <<>>
    /\ FormatStart

\* a request with the same options on the same text indented differently;
\* the text the first request left is kept for comparison
FormatTwin ==
    /\ pc = "done"
    /\ run = 1
    /\ formattingEnable
    /\ \E odd \in Indentations, even \in Indentations \ {<<" ">>} :
          lines' = Reindented(lines, odd, even)
    /\ formatted' = ApplyEdits(lines, edits)
    /\ run' = 3
    /\ pc' = "format"
    /\ i' = 0
    /\ indentLevel' = 0
    /\ indentStack' = <<>>
    /\ tempIndent' = 0
    /\ lastLineWasLabel' = FALSE
    /\ effectiveIndent' = 0
    /\ edits' = <<>>
    /\ UNCHANGED <<dvars, options, formattingEnable, vvars, svars>>

NextFormatTwin == FormatDisabled \/ FormatLine \/ FormatReturn \/ FormatTwin

SpecFormatTwin == InitFormatTwin /\ [][NextFormatTwin]_vars

\* C35: two documents whose non-blank lines are equal after removing leading
\* whitespace, with blank lines in the same positions, are formatted with the
\* same options into texts that agree on every non-blank line, at every
\* point of the second request.
C35_ResultIndependentOfIndentation ==
    run = 3 =>
        /\ Len(lines) = Len(formatted)
        /\ \A n \in 1..i :
              Trim(lines[n]) # <<>> => ApplyEditsToLine(lines, edits, n - 1) = formatted[n]

\* the second request re-indented three lines of a differently indented text
C35_Witness ==
    /\ run = 3
    /\ pc = "done"
    /\ Len(lines) = 3
    /\ Len(edits) = 3
    /\ lines[1] # formatted[1]
    /\ LeadingWhitespace(formatted[3]) > 0

(***************************************************************************)
(* The validator: validateText.                                            *)
(***************************************************************************)
CONTROL_KEYWORDS ==
    << <<"i", "f">>, <<"e", "l", "s", "e">>, <<"w", "h", "i", "l", "e">>, <<"f", "o", "r">>, <<"s", "w", "i", "t", "c", "h">>, <<"c", "a", "s", "e">>,    \* if | else | while | for | switch | case
       <<"b", "r", "e", "a", "k">>, <<"c", "o", "n", "t", "i", "n", "u", "e">>, <<"g", "o", "t", "o">>, <<"r", "e", "t", "u", "r", "n">>, <<"t", "r", "y">>, <<"c", "a", "t", "c", "h">> >>    \* break | continue | goto | return | try | catch
THREAD_KEYWORDS ==
    << <<"t", "h", "r", "e", "a", "d">>, <<"w", "a", "i", "t", "t", "h", "r", "e", "a", "d">>, <<"w", "a", "i", "t">>, <<"w", "a", "i", "t", "f", "r", "a", "m", "e">>, <<"w", "a", "i", "t", "t", "i", "l", "l">>,    \* thread | waitthread | wait | waitframe | waittill
       <<"w", "a", "i", "t", "e", "x", "e", "c">>, <<"e", "n", "d">>, <<"E", "n", "d">>, <<"E", "N", "D">>, <<"e", "x", "e", "c">>, <<"e", "x", "e", "c", "_", "s", "e", "r", "v", "e", "r">> >>    \* waitexec | end | End | END | exec | exec_server
SCOPE_KEYWORDS ==
    << <<"l", "o", "c", "a", "l">>, <<"l", "e", "v", "e", "l">>, <<"g", "a", "m", "e">>, <<"p", "a", "r", "m">>, <<"g", "r", "o", "u", "p">>, <<"s", "e", "l", "f">>, <<"o", "w", "n", "e", "r">> >>    \* local | level | game | parm | group | self | owner
BUILTIN_COMMANDS ==
    << <<"s", "p", "a", "w", "n">>, <<"d", "e", "l", "e", "t", "e">>, <<"t", "r", "i", "g", "g", "e", "r">>, <<"p", "r", "i", "n", "t">>, <<"p", "r", "i", "n", "t", "l", "n">>, <<"i", "p", "r", "i", "n", "t", "l", "n">>,    \* spawn | delete | trigger | print | println | iprintln
       <<"i", "p", "r", "i", "n", "t", "l", "n", "b", "o", "l", "d">>, <<"d", "p", "r", "i", "n", "t", "l", "n">>, <<"m", "a", "k", "e", "a", "r", "r", "a", "y">>, <<"m", "a", "k", "e", "A", "r", "r", "a", "y">>,    \* iprintlnbold | dprintln | makearray | makeArray
       <<"e", "n", "d", "a", "r", "r", "a", "y">>, <<"e", "n", "d", "A", "r", "r", "a", "y">>, <<"s", "i", "z", "e">> >>    \* endarray | endArray | size
LANGUAGE_CONSTANTS == << <<"N", "U", "L", "L">>, <<"N", "I", "L">>, <<"t", "r", "u", "e">>, <<"f", "a", "l", "s", "e">> >>    \* NULL | NIL | true | false
KEYWORDS ==
    CONTROL_KEYWORDS \o THREAD_KEYWORDS \o SCOPE_KEYWORDS \o BUILTIN_COMMANDS
        \o LANGUAGE_CONSTANTS

\* KEYWORDS.some(kw => kw.toLowerCase() === lower)
LowerCaseKeywords == {ToLowerCase(KEYWORDS[k]) : k \in 1..Len(KEYWORDS)}
IsKeyword(lower) == lower \in LowerCaseKeywords
\* Object.keys(commands).some(cmd => cmd.toLowerCase() === lower)
IsCommand(table, lower) == \E cmd \in table : ToLowerCase(cmd) = lower
IsKnownWord(table, word) ==
    IsCommand(table, ToLowerCase(word)) \/ IsKeyword(ToLowerCase(word))

\* the rest of a line after the first block-comment close, trimmed
AfterCommentClose(t) == Trim(Substring(t, IndexOf(t, <<"*", "/">>) + 2))

\* Block-comment handling and the blank/comment skip at the top of the scan
\* loop: whether the line is skipped, the text the later checks read, and
\* the block-comment flag after the line.
ScanLineView(inComment, line) ==
    LET t0 == Trim(line)
        closesHere == inComment /\ Includes(t0, <<"*", "/">>)
        t1 == IF closesHere THEN AfterCommentClose(t0) ELSE t0
        opensHere == StartsWith(t1, <<"/", "*">>)
        staysOpen == opensHere /\ ~Includes(t1, <<"*", "/">>)
        t2 == IF opensHere /\ ~staysOpen THEN AfterCommentClose(t1) ELSE t1
    IN  IF inComment /\ ~closesHere
        THEN [skip |-> TRUE, trimmedLine |-> t0, inBlockComment |-> TRUE]
        ELSE IF staysOpen
        THEN [skip |-> TRUE, trimmedLine |-> t1, inBlockComment |-> TRUE]
        ELSE [skip |-> Len(t2) = 0 \/ StartsWith(t2, <<"/", "/">>),
              trimmedLine |-> t2, inBlockComment |-> FALSE]

\* trimmedLine with a trailing line comment removed, trimmed
CommentStripped(trimmedLine) ==
    IF Includes(trimmedLine, <<"/", "/">>)
    THEN Trim(SubSeq(trimmedLine, 1, IndexOf(trimmedLine, <<"/", "/">>)))
    ELSE trimmedLine

\* content.endsWith(':') && !content.endsWith('::')
IsLabelDefinition(content) == EndsWith(content, <<":">>) /\ ~EndsWith(content, <<":", ":">>)

\* the longest prefix of s made of characters of the set (a greedy [...]*)
PrefixIn(s, allowed) ==
    LET stop == {k \in 1..Len(s) : s[k] \notin allowed}
    IN  IF stop = {} THEN s
        ELSE SubSeq(s, 1, (CHOOSE k \in stop : \A m \in stop : k <= m) - 1)
\* the longest prefix of s with no character of the set (a greedy [^...]*)
PrefixNotIn(s, excluded) ==
    LET stop == {k \in 1..Len(s) : s[k] \in excluded}
    IN  IF stop = {} THEN s
        ELSE SubSeq(s, 1, (CHOOSE k \in stop : \A m \in stop : k <= m) - 1)
SpaceChars == {" ", "\t"}

\* content.match(/^([a-zA-Z0-9_]+)/): the matched text, <<>> if no match
LeadingWordChars(content) == PrefixIn(content, WordChars)

\* trimmedLine.match(/^([a-zA-Z_][a-zA-Z0-9_]*)/): the matched text, <<>> if none
LeadingIdentifier(t) ==
    IF t # <<>> /\ IsIdentStart(t[1]) THEN PrefixIn(t, WordChars) ELSE <<>>

\* content.match(/^case\s+(.+):$/)
IsCaseClause(content) ==
    /\ StartsWith(content, <<"c", "a", "s", "e">>)    \* case
    /\ Len(content) >= 7
    /\ IsSpace(content[5])
    /\ content[Len(content)] = ":"
    /\ \E p \in 6..(Len(content) - 1) : \A k \in 5..(p - 1) : IsSpace(content[k])

\* s.split(/\s+/) of a trimmed, non-empty string, each word with the 0-based
\* position where it starts in s
RECURSIVE SplitWordsFrom(_, _)
SplitWordsFrom(s, from) ==
    LET rest == Substring(s, from)
        word == PrefixNotIn(rest, SpaceChars)
        gap == PrefixIn(Substring(rest, Len(word)), SpaceChars)
    IN  IF rest = <<>> THEN <<>>
        ELSE <<[text |-> word, start |-> from]>>
                 \o SplitWordsFrom(s, from + Len(word) + Len(gap))
SplitWords(s) == SplitWordsFrom(s, 0)

THREAD_CALL_WORDS == {<<"t", "h", "r", "e", "a", "d">>, <<"w", "a", "i", "t", "t", "h", "r", "e", "a", "d">>, <<"e", "x", "e", "c">>}    \* thread | waitthread | exec

\* target.replace(/[;,]$/, '')
CleanTarget(target) ==
    IF target # <<>> /\ target[Len(target)] \in {";", ","}
    THEN SubSeq(target, 1, Len(target) - 1) ELSE target

\* /^[a-zA-Z_][a-zA-Z0-9_]*$/
IsIdentifier(s) ==
    s # <<>> /\ IsIdentStart(s[1]) /\ \A k \in 1..Len(s) : IsWordChar(s[k])

IsThreadCallAnyTarget(words, j) ==
    /\ ToLowerCase(words[j].text) \in THREAD_CALL_WORDS
    /\ j + 1 <= Len(words)

\* whether words[j + 1] is recorded as the target of the call keyword words[j]
IsThreadCall(words, j) ==
    /\ ToLowerCase(words[j].text) \in THREAD_CALL_WORDS
    /\ j + 1 <= Len(words)
    /\ LET target == words[j + 1].text
       IN  /\ ~Includes(target, <<":", ":">>)
           /\ ~StartsWith(target, <<"$">>)
           /\ ~StartsWith(target, <<"(">>)
           /\ ~EndsWith(target, <<".", "s", "c", "r">>)    \* .scr
           /\ IsIdentifier(CleanTarget(target))

\* char: line.indexOf(cleanTarget)
ThreadCallChar(line, cleanTarget) == IndexOf(line, cleanTarget)

\* the call sites of one line, in word order
RECURSIVE ThreadCallsFrom(_, _, _, _)
ThreadCallsFrom(line, n, words, j) ==
    IF j > Len(words) THEN <<>>
    ELSE (IF IsThreadCall(words, j)
          THEN LET label == CleanTarget(words[j + 1].text)
               IN  <<[label |-> label, line |-> n, char |-> ThreadCallChar(line, label)]>>
          ELSE <<>>) \o ThreadCallsFrom(line, n, words, j + 1)
ThreadCallsOfLine(line, n, trimmedLine) ==
    ThreadCallsFrom(line, n, SplitWords(trimmedLine), 1)

Message(template, word, count) == [template |-> template, word |-> word, count |-> count]

Diagnostic(severity, n, startChar, endChar, message, related) ==
    [severity |-> severity, line |-> n, startChar |-> startChar, endChar |-> endChar,
     message |-> message, source |-> "morpheus-lsp", relatedInformation |-> related]

\* range covering the whole of line n
WholeLine(severity, n, line, message) ==
    Diagnostic(severity, n, 0, Len(line), message, <<>>)

HasAnyQuote(line) == CountChar(line, "\"") # 0

\* quoteCount % 2 !== 0
HasOddQuotes(line) == CountChar(line, "\"") % 2 # 0

QuoteDiagnostics(line, n) ==
    IF HasOddQuotes(line)
    THEN <<WholeLine("Warning", n, line,
               Message("Line has an odd number of quotes. Check for unclosed strings.", <<>>, 0))>>
    ELSE <<>>

\* group 2 of trimmedLine.match(/^(if|while)\s*\(?\s*([^)]+)/i): <<>> if no match
Condition(trimmedLine) ==
    LET lower == ToLowerCase(trimmedLine)
        kw == IF StartsWith(lower, <<"i", "f">>) THEN 2
              ELSE IF StartsWith(lower, <<"w", "h", "i", "l", "e">>) THEN 5 ELSE 0    \* while
        rest == Substring(trimmedLine, kw)
        r1 == TrimStart(rest)
        n1 == Len(rest) - Len(r1)
        paren == StartsWith(r1, <<"(">>)
        r2 == TrimStart(Substring(r1, 1))
        n2 == Len(r1) - 1 - Len(r2)
    IN  IF kw = 0 THEN <<>>
        ELSE IF paren /\ r2 # <<>> /\ r2[1] # ")" THEN PrefixNotIn(r2, {")"})
        ELSE IF paren /\ n2 > 0 THEN <<r1[1 + n2]>>
        ELSE IF paren THEN PrefixNotIn(r1, {")"})
        ELSE IF r1 # <<>> /\ r1[1] # ")" THEN PrefixNotIn(r1, {")"})
        ELSE IF n1 > 0 THEN <<rest[n1]>>
        ELSE <<>>

\* /[^=!<>]=[^=]/.test(condition) && !/==/.test(condition)
HasBareAssignment(condition) ==
    /\ \E k \in 1..(Len(condition) - 2) :
          /\ condition[k] \notin {"=", "!", "<", ">"}
          /\ condition[k + 1] = "="
          /\ condition[k + 2] # "="
    /\ ~Includes(condition, <<"=", "=">>)

AssignmentDiagnostics(line, n, trimmedLine) ==
    IF HasBareAssignment(Condition(trimmedLine))
    THEN <<WholeLine("Warning", n, line,
               Message("Possible assignment in condition. Did you mean == instead of =?", <<>>, 0))>>
    ELSE <<>>

\* const startChar = line.indexOf(firstWord)
UnknownCommandChar(line, firstWord) == IndexOf(line, firstWord)

UnknownCommandDiagnostics(table, line, n, trimmedLine, content) ==
    LET firstWord == LeadingIdentifier(trimmedLine)
        startChar == UnknownCommandChar(line, firstWord)
    IN  IF /\ firstWord # <<>>
           /\ ~IsLabelDefinition(content)
           /\ ~StartsWith(Substring(trimmedLine, Len(firstWord)), <<".">>)
           /\ ~IsKnownWord(table, firstWord)
        THEN <<Diagnostic("Warning", n, startChar, startChar + Len(firstWord),
                   Message("Unknown command or keyword: '${firstWord}'", firstWord, 0), <<>>)>>
        ELSE <<>>

(***************************************************************************)
(* Texts and command tables handed to the validator.                       *)
(***************************************************************************)
ValidatorVocabulary ==
    { <<"}">>,
      <<"t", "h", "r", "e", "a", "d", " ", "r", "e", "a", "d">>,    \* thread read
      <<"r", "e", "a", "d", ":">>,    \* read:
      <<"/", "/", " ", "\"", "{">>,
      <<"/", "*", " ", "x", "(", " ", "*", "/", " ", "x">>,    \* /* x( */ x
      <<" ", " ", "s", "a", "y", " ", "\"", "h", "i", " ", "{">>,
      <<"c", "a", "s", "e", " ", "\"", "a", ":">>,
      <<" ", " ", "e", "x", "e", "c", " ", "S", "a", "y", ";">>,    \*   exec Say;
      <<"/", "*">>,
      <<"*", "/", " ", "w", "a", "i", "t", "t", "h", "r", "e", "a", "d", " ", "g", "o">>,    \* */ waitthread go
      <<"i", "f", " ", "(", "x", " ", "=", " ", "\"", "1", "\"", ")", " ", "{">>,
      <<"t", "h", "r", "e", "a", "d", " ", "a", ":", ":", "b", " ", "e", "x", "e", "c", " ", "$", "x", " ", "t", "h", "r", "e", "a", "d", " ", "(", "x", ")", " ", "e", "x", "e", "c", " ", "a", ".", "s", "c", "r">>,    \* thread a::b exec $x thread (x) exec a.scr
      <<"t", "h", "r", "e", "a", "d", " ", "a", "b", " ", "e", "x", "e", "c", " ", "a", " ", "\"", "x">>,
      <<>> }

\* a block comment spanning three lines
BlockCommentExamples == { << <<"/", "*">>, x, <<"*", "/", " ", "w", "a", "i", "t", "t", "h", "r", "e", "a", "d", " ", "g", "o">> >> : x \in ValidatorVocabulary }    \* /* | */ waitthread go

\* a call whose target resembles the label collected from a case clause
SimilarLabelExamples ==
    { << x, <<"c", "a", "s", "e", " ", "\"", "a", ":">>, <<"t", "h", "r", "e", "a", "d", " ", "a", "b", " ", "e", "x", "e", "c", " ", "a", " ", "\"", "x">> >> : x \in ValidatorVocabulary }

\* switch clauses: a call to the name of a clause, clauses carrying a comment
ClauseExamples ==
    { << <<"d", "e", "f", "a", "u", "l", "t", ":">>, <<"t", "h", "r", "e", "a", "d", " ", "d", "e", "f", "a", "u", "l", "t">> >>,    \* default: | thread default
      << <<"t", "h", "r", "e", "a", "d", " ", "d", "e", "f", "a", "u", "l", "t">> >>,    \* thread default
      << <<"d", "e", "f", "a", "u", "l", "t", ":", " ", "/", "/", " ", "t", "h", "r", "e", "a", "d", " ", "g", "o", " ", "\"">> >>,
      << <<"c", "a", "s", "e", " ", "1", ":", " ", "/", "/", " ", "t", "h", "r", "e", "a", "d", " ", "g", "o", " ", "\"">>, <<"i", "f", " ", "(", "x", " ", "=", " ", "1", ")">> >> }

\* conditions with an equals sign at their ends, with comparisons, and with
\* an assignment next to a comparison
ConditionExamples ==
    { << <<"i", "f", " ", "(", "x", " ", "=">> >>,    \* if (x =
      << <<"i", "f", " ", "(", "=", "1", ")">> >>,    \* if (=1)
      << <<"W", "h", "i", "l", "e", " ", "x", " ", "!", "=", " ", "1">> >>,    \* While x != 1
      << <<"i", "f", " ", "(", "x", " ", "<", "=", " ", "y", ")">> >>,    \* if (x <= y)
      << <<"i", "f", " ", "(", "a", " ", "=", "=", " ", "b", " ", "=", " ", "c", ")">> >>,    \* if (a == b = c)
      << <<"w", "h", "i", "l", "e", "(", "x", "=", "1", ")">> >>,    \* while(x=1)
      << <<"i", "f", "x", " ", "=", " ", "1">> >>,    \* ifx = 1
      << <<"w", "h", "i", "l", "e", "d", " ", "=", " ", "0", " ", "/", "/", " ", "b">>, <<"I", "F", "(", "x", " ", "=", " ", "1", ")">> >> }    \* whiled = 0 // b | IF(x = 1)

\* square brackets left open and closed too often, all three counters off
BalanceExamples ==
    { << <<"l", "o", "c", "a", "l", ".", "a", "[", "1", "]", "[", "2", " ", "=", " ", "0">> >>,    \* local.a[1][2 = 0
      << <<"l", "o", "c", "a", "l", ".", "a", " ", "=", " ", "1", "]">>, <<>> >>,    \* local.a = 1] | 
      << <<"l", "o", "c", "a", "l", ".", "a", "[", "(", "(", "1", " ", "=", " ", "{">>, <<"]", "]", ")", " ", "}", "}", "}">> >> }    \* local.a[((1 = { | ]]) }}}

\* a missing target that resembles a label written with a blank before its
\* colon, and one that resembles four labels
RelatedExamples ==
    { << <<>>, <<"g", "o", " ", ":">>, <<"t", "h", "r", "e", "a", "d", " ", "g", "o", "t">> >>,    \* go : | thread got
      << <<"g", "o", "1", ":">>, <<"g", "o", "2", ":">>, <<"g", "o", "3", ":">>, <<"g", "o", "4", ":">>, <<"t", "h", "r", "e", "a", "d", " ", "g", "o">> >> }    \* go1: | go2: | go3: | go4: | thread go

ValidatorDocuments ==
    (SeqsUpTo(ValidatorVocabulary, MaxValidatorLines) \ {<<>>})
        \cup BlockCommentExamples \cup SimilarLabelExamples \cup ClauseExamples
        \cup ConditionExamples \cup BalanceExamples \cup RelatedExamples

CommandTables == { {}, {<<"S", "a", "y">>} }

\* the formatter takes no part in a validation
FormatIdle ==
    /\ options = [insertSpaces |-> FALSE, tabSize |-> 1]
    /\ formattingEnable = FALSE
    /\ indentLevel = 0
    /\ indentStack = <<>>
    /\ tempIndent = 0
    /\ lastLineWasLabel = FALSE
    /\ effectiveIndent = 0
    /\ edits = <<>>
    /\ run = 1
    /\ formatted = <<>>

InitValidate ==
    /\ FormatIdle
    /\ SexecIdle
    /\ ServerIdle
    /\ lines \in ValidatorDocuments
    /\ commands \in CommandTables
    /\ documentUri \in {"", "file:///maps/test.scr"}
    /\ hasDiagnosticRelatedInfo \in BOOLEAN
    /\ i = 0
    /\ pc = "scan"
    /\ bracketBalance = 0
    /\ parenBalance = 0
    /\ squareBracketBalance = 0
    /\ definedLabels = <<>>
    /\ threadCalls = <<>>
    /\ inBlockComment = FALSE
    /\ diagnostics = <<>>

\* definedLabels.add(label)
SetAdd(set, x) == IF \E k \in 1..Len(set) : set[k] = x THEN set ELSE Append(set, x)
\* definedLabels.has(label)
SetHas(set, x) == \E k \in 1..Len(set) : set[k] = x

LabelOfLineWithColon(content) ==
    IF IsLabelDefinition(content) THEN content ELSE <<>>

\* the label a line adds to the label table, <<>> if none
LabelOfLine(content) ==
    IF IsLabelDefinition(content) THEN LeadingWordChars(content) ELSE <<>>

\* Pass 1: one iteration of the loop over the lines
ValidateLine ==
    /\ pc = "scan"
    /\ i < Len(lines)
    /\ LET line == lines[i + 1]
           view == ScanLineView(inBlockComment, line)
           trimmedLine == view.trimmedLine
           content == CommentStripped(trimmedLine)
           label == LabelOfLine(content)
       IN  /\ i' = i + 1
           /\ inBlockComment' = view.inBlockComment
           /\ IF view.skip
              THEN UNCHANGED <<bracketBalance, parenBalance, squareBracketBalance,
                               definedLabels, threadCalls, diagnostics>>
              ELSE /\ bracketBalance' =
                         bracketBalance + CountChar(line, "{") - CountChar(line, "}")
                   /\ parenBalance' =
                         parenBalance + CountChar(line, "(") - CountChar(line, ")")
                   /\ squareBracketBalance' =
                         squareBracketBalance + CountChar(line, "[") - CountChar(line, "]")
                   /\ definedLabels' =
                         IF label # <<>> THEN SetAdd(definedLabels, label) ELSE definedLabels
                   /\ IF IsCaseClause(content)
                      THEN UNCHANGED <<threadCalls, diagnostics>>
                      ELSE /\ threadCalls' =
                                 threadCalls \o ThreadCallsOfLine(line, i, trimmedLine)
                           /\ diagnostics' =
                                 diagnostics
                                   \o QuoteDiagnostics(line, i)
                                   \o AssignmentDiagnostics(line, i, trimmedLine)
                                   \o UnknownCommandDiagnostics(commands, line, i,
                                                                trimmedLine, content)
    /\ UNCHANGED <<dvars, lines, pc, fvars, vinputs, svars>>

ScanDone ==
    /\ pc = "scan"
    /\ i = Len(lines)
    /\ pc' = "resolve"
    /\ UNCHANGED <<dvars, lines, i, fvars, vvars, svars>>

\* s.substring(0, 3)
Prefix3(s) == SubSeq(s, 1, Min(3, Len(s)))

\* the similarity test of the "did you mean" candidates
IsSimilarLabel(label, missing) ==
    \/ Includes(ToLowerCase(label), Prefix3(ToLowerCase(missing)))
    \/ Includes(ToLowerCase(missing), Prefix3(ToLowerCase(label)))

\* Array.from(set).filter(...)
RECURSIVE SimilarLabels(_, _)
SimilarLabels(labels, missing) ==
    IF labels = <<>> THEN <<>>
    ELSE (IF IsSimilarLabel(Head(labels), missing) THEN <<Head(labels)>> ELSE <<>>)
             \o SimilarLabels(Tail(labels), missing)

\* the first line whose trimmed text starts with label + ':', 0 if there is none
LabelLine(doc, label) ==
    LET at == {n \in 0..(Len(doc) - 1) : StartsWith(Trim(doc[n + 1]), label \o <<":">>)}
    IN  IF at = {} THEN 0 ELSE CHOOSE n \in at : \A m \in at : n <= m

RelatedInformation(doc, uri, label) ==
    [uri |-> uri, line |-> LabelLine(doc, label), startChar |-> 0, endChar |-> Len(label),
     message |-> Message("Did you mean '${label}'?", label, 0)]

RelatedFor(doc, uri, hasRelated, labels, missing) ==
    LET similar == SimilarLabels(labels, missing)
        firstThree == SubSeq(similar, 1, Min(3, Len(similar)))
    IN  IF hasRelated /\ uri # ""
        THEN [k \in 1..Len(firstThree) |-> RelatedInformation(doc, uri, firstThree[k])]
        ELSE <<>>

\* whether a recorded call is reported
IsUnresolved(table, labels, call) ==
    ~SetHas(labels, call.label) /\ ~IsKnownWord(table, call.label)

LabelNotFound(doc, uri, hasRelated, labels, call) ==
    Diagnostic("Warning", call.line, call.char, call.char + Len(call.label),
        Message("Label '${call.label}' not found in this file. Is it defined in an external script?",
                call.label, 0),
        RelatedFor(doc, uri, hasRelated, labels, call.label))

RECURSIVE ResolveCalls(_, _, _, _, _, _)
ResolveCalls(doc, table, uri, hasRelated, labels, calls) ==
    IF calls = <<>> THEN <<>>
    ELSE (IF IsUnresolved(table, labels, Head(calls))
          THEN <<LabelNotFound(doc, uri, hasRelated, labels, Head(calls))>>
          ELSE <<>>) \o ResolveCalls(doc, table, uri, hasRelated, labels, Tail(calls))

ResolveThreadCallsPrepending ==
    /\ pc = "resolve"
    /\ diagnostics' = ResolveCalls(lines, commands, documentUri, hasDiagnosticRelatedInfo,
                                   definedLabels, threadCalls) \o diagnostics
    /\ pc' = "balance"
    /\ UNCHANGED <<dvars, lines, i, fvars, svars, vinputs, bracketBalance, parenBalance,
                   squareBracketBalance, definedLabels, threadCalls, inBlockComment>>

\* Pass 2: validate the thread calls
ResolveThreadCalls ==
    /\ pc = "resolve"
    /\ diagnostics' = diagnostics \o ResolveCalls(lines, commands, documentUri,
                                        hasDiagnosticRelatedInfo, definedLabels, threadCalls)
    /\ pc' = "balance"
    /\ UNCHANGED <<dvars, lines, i, fvars, svars, vinputs, bracketBalance, parenBalance,
                   squareBracketBalance, definedLabels, threadCalls, inBlockComment>>

BalanceMessageAlwaysClosing(balance, what, closer, opener) ==
    Message("Unbalanced " \o what \o ": Missing ${n} closing " \o closer, <<>>, balance)

\* the text of a balance Error: the magnitude and the direction
BalanceMessage(balance, what, closer, opener) ==
    IF balance > 0
    THEN Message("Unbalanced " \o what \o ": Missing ${n} closing " \o closer, <<>>, balance)
    ELSE Message("Unbalanced " \o what \o ": Missing ${n} opening " \o opener, <<>>, -balance)

BalanceDiagnosticsOnFirstLine(doc, balance, what, closer, opener) ==
    IF balance # 0
    THEN <<WholeLine("Error", 0, doc[1], BalanceMessage(balance, what, closer, opener))>>
    ELSE <<>>

\* one Error on the last line for a non-zero counter
BalanceDiagnostics(doc, balance, what, closer, opener) ==
    IF balance # 0
    THEN <<WholeLine("Error", Len(doc) - 1, doc[Len(doc)],
               BalanceMessage(balance, what, closer, opener))>>
    ELSE <<>>

\* Pass 3: check the balances; return diagnostics
CheckBalance ==
    /\ pc = "balance"
    /\ diagnostics' =
          diagnostics
            \o BalanceDiagnostics(lines, bracketBalance, "braces", "}", "{")
            \o BalanceDiagnostics(lines, parenBalance, "parentheses", ")", "(")
            \o BalanceDiagnostics(lines, squareBracketBalance, "square brackets", "]", "[")
    /\ pc' = "done"
    /\ UNCHANGED <<dvars, lines, i, fvars, svars, vinputs, bracketBalance, parenBalance,
                   squareBracketBalance, definedLabels, threadCalls, inBlockComment>>

NextValidate == ValidateLine \/ ScanDone \/ ResolveThreadCalls \/ CheckBalance

SpecValidate == InitValidate /\ [][NextValidate]_vars

(***************************************************************************)
(* Properties of the validator.                                            *)
(***************************************************************************)
\* the block-comment flag with which the scan reaches line n (1-based)
RECURSIVE InBlockCommentBefore(_, _)
InBlockCommentBefore(doc, n) ==
    IF n = 1 THEN FALSE
    ELSE ScanLineView(InBlockCommentBefore(doc, n - 1), doc[n - 1]).inBlockComment

ViewOfLine(n) == ScanLineView(InBlockCommentBefore(lines, n), lines[n])
\* line n is neither blank, nor a line comment, nor inside a block comment
IsScanned(n) == ~ViewOfLine(n).skip
ContentOfLine(n) == CommentStripped(ViewOfLine(n).trimmedLine)
\* line n reaches the checks that follow the case-clause skip
IsChecked(n) == IsScanned(n) /\ ~IsCaseClause(ContentOfLine(n))
\* column of the raw line at which the scanned text of line n begins
ScannedColumn(n) == Len(TrimEnd(lines[n])) - Len(ViewOfLine(n).trimmedLine)

RECURSIVE SumOver(_, _)
SumOver(f, n) == IF n = 0 THEN 0 ELSE f[n] + SumOver(f, n - 1)

TotalCount(c) == SumOver([n \in 1..Len(lines) |-> CountChar(lines[n], c)], Len(lines))
ScannedCount(c) ==
    SumOver([n \in 1..Len(lines) |-> IF IsScanned(n) THEN CountChar(lines[n], c) ELSE 0],
            Len(lines))

ValidateDone == pc = "done"

IsBraceError(d) ==
    d.message.template \in {"Unbalanced braces: Missing ${n} closing }",
                            "Unbalanced braces: Missing ${n} opening {"}
IsQuoteWarning(d) ==
    d.message.template = "Line has an odd number of quotes. Check for unclosed strings."
IsLabelNotFound(d) ==
    d.message.template
        = "Label '${call.label}' not found in this file. Is it defined in an external script?"
IsUnknownCommand(d) == d.message.template = "Unknown command or keyword: '${firstWord}'"

BraceErrors == {k \in 1..Len(diagnostics) : IsBraceError(diagnostics[k])}

\* exactly one brace Error: n closing braces missing, anchored on the last line
OneMissingClosingBraces(n) ==
    /\ Cardinality(BraceErrors) = 1
    /\ \A k \in BraceErrors :
          /\ diagnostics[k].severity = "Error"
          /\ diagnostics[k].message.template = "Unbalanced braces: Missing ${n} closing }"
          /\ diagnostics[k].message.count = n
          /\ diagnostics[k].line = Len(lines) - 1
          /\ diagnostics[k].startChar = 0
          /\ diagnostics[k].endChar = Len(lines[Len(lines)])

\* C5 as stated: a text with N > 0 opening braces and no closing brace gets
\* exactly one brace Error, for N missing closing braces, on the last line.
C5_MissingBracesOfWholeText ==
    (ValidateDone /\ TotalCount("{") > 0 /\ TotalCount("}") = 0)
        => OneMissingClosingBraces(TotalCount("{"))

\* C5 amended: N counts the opening braces on the scanned lines only (the
\* lines that are not blank, not line comments and not inside a block comment).
C5_MissingBracesOfScannedLines ==
    (ValidateDone /\ ScannedCount("{") > 0 /\ TotalCount("}") = 0)
        => OneMissingClosingBraces(ScannedCount("{"))

\* an opening brace on a scanned line and another one on a skipped line
C5_Witness ==
    /\ ValidateDone
    /\ Len(lines) = 2
    /\ ScannedCount("{") = 1
    /\ TotalCount("{") = 2
    /\ TotalCount("}") = 0

\* a scanned line n whose comment-stripped content is L:
DefinesLabel(n, L) == IsScanned(n) /\ ContentOfLine(n) = L \o <<":">>

\* C6: a call whose target L is defined by some line, before or after the
\* call, gets no label-not-found diagnostic; none is produced during the scan.
C6_DefinedLabelResolves ==
    /\ pc = "scan" => \A k \in 1..Len(diagnostics) : ~IsLabelNotFound(diagnostics[k])
    /\ ValidateDone =>
          \A k \in 1..Len(diagnostics) :
              IsLabelNotFound(diagnostics[k]) =>
                  ~\E n \in 1..Len(lines) : DefinesLabel(n, diagnostics[k].message.word)

\* the call comes before the definition of its target
C6_Witness ==
    /\ ValidateDone
    /\ Len(lines) = 2
    /\ Len(threadCalls) = 1
    /\ threadCalls[1].line = 0
    /\ DefinesLabel(2, threadCalls[1].label)

\* the call statements of line n: the positions j of a call keyword in the
\* words of the line whose next word is a label target
WordsOfLine(n) == SplitWords(ViewOfLine(n).trimmedLine)
CallPositions(n) ==
    IF IsChecked(n)
    THEN LET words == WordsOfLine(n)
         IN  {j \in 1..Len(words) : IsThreadCall(words, j)}
    ELSE {}
TargetOfCall(n, j) == CleanTarget(WordsOfLine(n)[j + 1].text)
\* column of the raw line at which the target token of the call begins
TargetColumn(n, j) == ScannedColumn(n) + WordsOfLine(n)[j + 1].start
IsDefinedSomewhere(L) == \E n \in 1..Len(lines) : LabelOfLine(ContentOfLine(n)) = L /\ IsScanned(n)
LabelNotFoundAt(n, L) ==
    {k \in 1..Len(diagnostics) :
        /\ IsLabelNotFound(diagnostics[k])
        /\ diagnostics[k].line = n - 1
        /\ diagnostics[k].message.word = L}

\* C7 as stated: a call whose target X is no label, command or keyword gets
\* exactly one label-not-found Warning, starting at the column of the target
\* token and spanning X; a call whose target is a command or keyword gets none.
C7_LabelNotFoundAtTargetToken ==
    ValidateDone =>
        \A n \in 1..Len(lines) : \A j \in CallPositions(n) :
            LET X == TargetOfCall(n, j)
                same == {m \in CallPositions(n) : TargetOfCall(n, m) = X}
            IN  IF IsKnownWord(commands, X)
                THEN LabelNotFoundAt(n, X) = {}
                ELSE ~IsDefinedSomewhere(X) =>
                        /\ Cardinality(LabelNotFoundAt(n, X)) = Cardinality(same)
                        /\ \E k \in LabelNotFoundAt(n, X) :
                              /\ diagnostics[k].severity = "Warning"
                              /\ diagnostics[k].startChar = TargetColumn(n, j)
                              /\ diagnostics[k].endChar = TargetColumn(n, j) + Len(X)

UnknownCommandsOfLine(n) ==
    {k \in 1..Len(diagnostics) :
        IsUnknownCommand(diagnostics[k]) /\ diagnostics[k].line = n - 1}

\* C8 as stated: a scanned line whose leading identifier T is no label
\* definition and is not followed by a dot gets no unknown-command diagnostic
\* when T is a command or keyword (ignoring case), and otherwise exactly one
\* Warning whose range begins where the leading token begins and spans T.
C8_UnknownCommandSpansLeadingToken ==
    ValidateDone =>
        \A n \in 1..Len(lines) :
            LET t == ViewOfLine(n).trimmedLine
                T == LeadingIdentifier(t)
            IN  (/\ IsScanned(n)
                 /\ T # <<>>
                 /\ ~IsLabelDefinition(ContentOfLine(n))
                 /\ ~StartsWith(Substring(t, Len(T)), <<".">>))
                =>  IF IsKnownWord(commands, T)
                    THEN UnknownCommandsOfLine(n) = {}
                    ELSE /\ Cardinality(UnknownCommandsOfLine(n)) = 1
                         /\ \A k \in UnknownCommandsOfLine(n) :
                               /\ diagnostics[k].severity = "Warning"
                               /\ diagnostics[k].message.word = T
                               /\ diagnostics[k].startChar = ScannedColumn(n)
                               /\ diagnostics[k].endChar = ScannedColumn(n) + Len(T)

QuoteWarningsOfLine(n) ==
    {k \in 1..Len(diagnostics) :
        IsQuoteWarning(diagnostics[k]) /\ diagnostics[k].line = n - 1}
OneWholeLineQuoteWarning(n) ==
    /\ Cardinality(QuoteWarningsOfLine(n)) = 1
    /\ \A k \in QuoteWarningsOfLine(n) :
          /\ diagnostics[k].severity = "Warning"
          /\ diagnostics[k].startChar = 0
          /\ diagnostics[k].endChar = Len(lines[n])

\* C9 as stated: every line with an odd number of double quotes gets exactly
\* one quote Warning covering the line; every line with an even number, none.
C9_QuoteWarningOnEveryOddLine ==
    ValidateDone =>
        \A n \in 1..Len(lines) :
            IF CountChar(lines[n], "\"") % 2 = 1
            THEN OneWholeLineQuoteWarning(n)
            ELSE QuoteWarningsOfLine(n) = {}

\* C9 amended: the lines that get the Warning are the scanned lines (not
\* blank, not a line comment, not inside a block comment) that are no
\* `case <expr>:` clause and hold an odd number of double quotes.
C9_QuoteWarningOnCheckedOddLine ==
    ValidateDone =>
        \A n \in 1..Len(lines) :
            IF IsChecked(n) /\ CountChar(lines[n], "\"") % 2 = 1
            THEN OneWholeLineQuoteWarning(n)
            ELSE QuoteWarningsOfLine(n) = {}

\* a checked line with one quote, and a checked line with two quotes
C9_Witness ==
    /\ ValidateDone
    /\ Len(lines) = 2
    /\ IsChecked(1) /\ CountChar(lines[1], "\"") = 1
    /\ IsChecked(2) /\ CountChar(lines[2], "\"") = 2

IsAssignmentWarning(d) ==
    d.message.template = "Possible assignment in condition. Did you mean == instead of =?"
IsScanDiagnostic(d) == IsQuoteWarning(d) \/ IsAssignmentWarning(d) \/ IsUnknownCommand(d)
IsBalanceError(d) ==
    /\ d.severity = "Error"
    /\ d.message.template \in
          { "Unbalanced braces: Missing ${n} closing }",
            "Unbalanced braces: Missing ${n} opening {",
            "Unbalanced parentheses: Missing ${n} closing )",
            "Unbalanced parentheses: Missing ${n} opening (",
            "Unbalanced square brackets: Missing ${n} closing ]",
            "Unbalanced square brackets: Missing ${n} opening [" }
\* the pass that produced a diagnostic
PassOf(d) ==
    IF IsScanDiagnostic(d) THEN 1
    ELSE IF IsLabelNotFound(d) THEN 2
    ELSE IF IsBalanceError(d) THEN 3 ELSE 0

\* the call sites <<line, word>> whose target is no collected label, command
\* or keyword
UnresolvedCallSites ==
    UNION { LET words == WordsOfLine(n)
            IN  { <<n, j>> : j \in { m \in CallPositions(n) :
                      /\ ~SetHas(definedLabels, CleanTarget(words[m + 1].text))
                      /\ ~IsKnownWord(commands, CleanTarget(words[m + 1].text)) } } :
            n \in 1..Len(lines) }
ComesBefore(s, t) == s[1] < t[1] \/ (s[1] = t[1] /\ s[2] < t[2])
LabelNotFoundIndexes == {k \in 1..Len(diagnostics) : IsLabelNotFound(diagnostics[k])}

\* C11: in the returned list the scan diagnostics come first, by
\* non-decreasing line, then the label-not-found diagnostics, one per
\* unresolved call site in the order of the sites in the document (by line,
\* then by word), then the balance Errors.
C11_DiagnosticsInPassOrder ==
    ValidateDone =>
        LET sites == UnresolvedCallSites
            found == LabelNotFoundIndexes
            pass == [k \in 1..Len(diagnostics) |-> PassOf(diagnostics[k])]
        IN  /\ \A a \in 1..Len(diagnostics) : pass[a] >= 1
            /\ \A a, b \in 1..Len(diagnostics) :
                  a < b =>
                      /\ pass[a] <= pass[b]
                      /\ (pass[a] = 1 /\ pass[b] = 1)
                            => diagnostics[a].line <= diagnostics[b].line
            /\ Cardinality(found) = Cardinality(sites)
            /\ \A k \in found :
                  \E s \in sites :
                      /\ Cardinality({t \in sites : ComesBefore(t, s)})
                            = Cardinality({m \in found : m < k})
                      /\ diagnostics[k].line = s[1] - 1
                      /\ diagnostics[k].message.word = TargetOfCall(s[1], s[2])

\* scan diagnostics on two lines are followed by two label-not-found
\* diagnostics of one line and by a balance Error
C11_Witness ==
    /\ ValidateDone
    /\ \E a, b, c, d, e \in 1..Len(diagnostics) :
          /\ a < b /\ b < c /\ c < d /\ d < e
          /\ IsScanDiagnostic(diagnostics[a]) /\ IsScanDiagnostic(diagnostics[b])
          /\ diagnostics[a].line < diagnostics[b].line
          /\ IsLabelNotFound(diagnostics[c]) /\ IsLabelNotFound(diagnostics[d])
          /\ diagnostics[c].line = diagnostics[d].line
          /\ diagnostics[c].message.word # diagnostics[d].message.word
          /\ IsBalanceError(diagnostics[e])

\* a range on line n (0-based) from startChar to endChar lies within the document
InBounds(n, startChar, endChar) ==
    /\ 0 <= n /\ n < Len(lines)
    /\ 0 <= startChar /\ startChar <= endChar /\ endChar <= Len(lines[n + 1])

\* C12 as stated: every returned diagnostic, and every related location of
\* one, lies on a line of the document and within the length of that line.
C12_RangesWithinDocument ==
    ValidateDone =>
        \A k \in 1..Len(diagnostics) :
            LET d == diagnostics[k]
            IN  /\ InBounds(d.line, d.startChar, d.endChar)
                /\ \A r \in 1..Len(d.relatedInformation) :
                      InBounds(d.relatedInformation[r].line,
                               d.relatedInformation[r].startChar,
                               d.relatedInformation[r].endChar)

\* the ranges of the diagnostics themselves lie within the document
DiagnosticRangesWithinDocument ==
    ValidateDone =>
        \A k \in 1..Len(diagnostics) :
            InBounds(diagnostics[k].line, diagnostics[k].startChar, diagnostics[k].endChar)

\* the text of line n that lies outside block comments and is scanned
TextOutsideComment(n) == IF IsScanned(n) THEN ViewOfLine(n).trimmedLine ELSE <<>>
\* opening minus closing delimiters in the text outside block comments
BalanceOutsideComments(opener, closer) ==
    SumOver([n \in 1..Len(lines) |->
                CountChar(TextOutsideComment(n), opener)
                    - CountChar(TextOutsideComment(n), closer)], Len(lines))

\* C13 as stated: text inside a block comment, on its opening line, between,
\* and on its closing line before the close, adds nothing to the three
\* balances and causes no quote Warning.
C13_BlockCommentTextIgnored ==
    ValidateDone =>
        /\ bracketBalance = BalanceOutsideComments("{", "}")
        /\ parenBalance = BalanceOutsideComments("(", ")")
        /\ squareBracketBalance = BalanceOutsideComments("[", "]")
        /\ \A n \in 1..Len(lines) :
              QuoteWarningsOfLine(n) # {} => CountChar(TextOutsideComment(n), "\"") % 2 = 1

\* the target contains `::`, starts with `$` or `(`, or ends in `.scr`
IsExternalTarget(target) ==
    \/ Includes(target, <<":", ":">>)
    \/ StartsWith(target, <<"$">>)
    \/ StartsWith(target, <<"(">>)
    \/ EndsWith(target, <<".", "s", "c", "r">>)
\* the positions of the call keywords of line n that are followed by a word
CallKeywords(n) ==
    IF IsChecked(n)
    THEN LET words == WordsOfLine(n)
         IN  {j \in 1..(Len(words) - 1) :
             ToLowerCase(words[j].text) \in {<<"t", "h", "r", "e", "a", "d">>,
                 <<"w", "a", "i", "t", "t", "h", "r", "e", "a", "d">>,
                 <<"e", "x", "e", "c">>}}
    ELSE {}
CallsRecordedOn(n) == {k \in 1..Len(threadCalls) : threadCalls[k].line = n - 1}

\* C20: a call statement whose target contains `::`, starts with `$` or `(`,
\* or ends in `.scr` records no call site and gets no label-not-found
\* diagnostic; a line records at most one call site per other call statement.
C20_ExternalTargetsNotRecorded ==
    ValidateDone => \A n \in 1..Len(lines) :
        LET words == WordsOfLine(n)
            keywords == CallKeywords(n)
            recorded == CallsRecordedOn(n)
        IN  /\ Cardinality(recorded)
                  <= Cardinality({j \in keywords : ~IsExternalTarget(words[j + 1].text)})
            /\ \A j \in keywords :
                  IsExternalTarget(words[j + 1].text) =>
                      /\ \A k \in recorded :
                            threadCalls[k].label
                                \notin {words[j + 1].text, CleanTarget(words[j + 1].text)}
                      /\ \A k \in 1..Len(diagnostics) :
                            (IsLabelNotFound(diagnostics[k]) /\ diagnostics[k].line = n - 1)
                                => diagnostics[k].message.word
                                      \notin {words[j + 1].text, CleanTarget(words[j + 1].text)}

\* a line with the four kinds of external target next to a line whose call
\* is recorded and reported
C20_Witness ==
    /\ ValidateDone
    /\ Len(lines) = 2
    /\ \A n \in 1..2 : CallKeywords(n) # {}
    /\ Cardinality(CallKeywords(1)) = 4
    /\ \A j \in CallKeywords(1) : IsExternalTarget(WordsOfLine(1)[j + 1].text)
    /\ \E a, b, c, d \in CallKeywords(1) :
          /\ Includes(WordsOfLine(1)[a + 1].text, <<":", ":">>)
          /\ StartsWith(WordsOfLine(1)[b + 1].text, <<"$">>)
          /\ StartsWith(WordsOfLine(1)[c + 1].text, <<"(">>)
          /\ EndsWith(WordsOfLine(1)[d + 1].text, <<".", "s", "c", "r">>)
    /\ CallsRecordedOn(1) = {}
    /\ CallsRecordedOn(2) # {}
    /\ \E k \in 1..Len(diagnostics) : IsLabelNotFound(diagnostics[k])

\* content is a `case <expr>:` clause or a `default:` clause
IsDefaultClause(content) == content = <<"d", "e", "f", "a", "u", "l", "t", ":">>    \* default:
IsSwitchClause(content) == IsCaseClause(content) \/ IsDefaultClause(content)

\* line n is a label line: its content is an identifier and one colon, and it
\* is no switch clause
IsLabelLine(n, L) ==
    /\ IsScanned(n)
    /\ ContentOfLine(n) = L \o <<":">>
    /\ L # <<>>
    /\ \A k \in 1..Len(L) : IsWordChar(L[k])
    /\ ~IsSwitchClause(ContentOfLine(n))

\* C21 as stated: every entry of the label table comes from a line whose
\* comment-stripped content is an identifier followed by a single colon and
\* that is no case/default clause; so no clause defines `case` or `default`.
C21_LabelTableHoldsLabelLinesOnly ==
    \A k \in 1..Len(definedLabels) :
        \E n \in 1..Len(lines) : IsLabelLine(n, definedLabels[k])

IsAssignmentInCondition(d) ==
    d.message.template = "Possible assignment in condition. Did you mean == instead of =?"
\* the diagnostics of the checks that follow the case-clause skip, for line n
CheckDiagnosticsOfLine(n) ==
    {k \in 1..Len(diagnostics) :
        /\ diagnostics[k].line = n - 1
        /\ \/ IsQuoteWarning(diagnostics[k])
           \/ IsAssignmentInCondition(diagnostics[k])
           \/ IsUnknownCommand(diagnostics[k])}
\* line n took no part in the checks that follow the case-clause skip
IsSkippedFromChecks(n) == CallsRecordedOn(n) = {} /\ CheckDiagnosticsOfLine(n) = {}

\* C22 as stated: a scanned line whose content is a `case <expr>:` or a
\* `default:` clause records no call site and gets no quote, assignment or
\* unknown-command diagnostic, while its delimiters count toward the balances.
C22_SwitchClausesSkipped ==
    ValidateDone =>
        /\ \A n \in 1..Len(lines) :
              (IsScanned(n) /\ IsSwitchClause(ContentOfLine(n))) => IsSkippedFromChecks(n)
        /\ bracketBalance = ScannedCount("{") - ScannedCount("}")

\* the part of C22 the code keeps: the `case <expr>:` clauses are skipped
CaseClausesSkipped ==
    ValidateDone =>
        \A n \in 1..Len(lines) :
            (IsScanned(n) /\ IsCaseClause(ContentOfLine(n))) => IsSkippedFromChecks(n)

AssignmentWarningsOfLine(n) ==
    {k \in 1..Len(diagnostics) :
        IsAssignmentInCondition(diagnostics[k]) /\ diagnostics[k].line = n - 1}
\* the lines C23 is about: checked lines with a condition after if or while
HasCondition(n) == IsChecked(n) /\ Condition(ViewOfLine(n).trimmedLine) # <<>>
\* line n has exactly one assignment Warning, or none
WarnsOfAssignment(n, expected) ==
    IF expected
    THEN /\ Cardinality(AssignmentWarningsOfLine(n)) = 1
         /\ \A k \in AssignmentWarningsOfLine(n) : diagnostics[k].severity = "Warning"
    ELSE AssignmentWarningsOfLine(n) = {}

\* an equals sign with none of = ! < > directly before it and no = directly
\* after it; the ends of the condition count as "none"
HasLoneEquals(condition) ==
    \E k \in 1..Len(condition) :
        /\ condition[k] = "="
        /\ k > 1 => condition[k - 1] \notin {"=", "!", "<", ">"}
        /\ k < Len(condition) => condition[k + 1] # "="
\* an equals sign directly after a character other than = ! < > and directly
\* before a character other than =
HasEnclosedEquals(condition) ==
    \E k \in 2..(Len(condition) - 1) :
        /\ condition[k] = "="
        /\ condition[k - 1] \notin {"=", "!", "<", ">"}
        /\ condition[k + 1] # "="

\* C23 as stated: a line with a condition gets the assignment Warning exactly
\* when the condition holds an equals sign with none of = ! < > directly
\* before it and no = directly after it, and holds no ==.
C23_WarningOnLoneEquals ==
    ValidateDone =>
        \A n \in 1..Len(lines) :
            HasCondition(n) =>
                LET condition == Condition(ViewOfLine(n).trimmedLine)
                IN  WarnsOfAssignment(n,
                        HasLoneEquals(condition) /\ ~Includes(condition, <<"=", "=">>))

\* what the regular expression tests: the equals sign stands between two
\* characters of the condition, the one before it none of = ! < > and the
\* one after it not =
WarningOnEnclosedEquals ==
    ValidateDone =>
        \A n \in 1..Len(lines) :
            HasCondition(n) =>
                LET condition == Condition(ViewOfLine(n).trimmedLine)
                IN  WarnsOfAssignment(n,
                        HasEnclosedEquals(condition) /\ ~Includes(condition, <<"=", "=">>))

Abs(x) == IF x < 0 THEN -x ELSE x
BalanceErrorsOf(what) ==
    {k \in 1..Len(diagnostics) :
        diagnostics[k].message.template
            \in {"Unbalanced " \o what \o ": Missing ${n} closing }",
                 "Unbalanced " \o what \o ": Missing ${n} opening {",
                 "Unbalanced " \o what \o ": Missing ${n} closing )",
                 "Unbalanced " \o what \o ": Missing ${n} opening (",
                 "Unbalanced " \o what \o ": Missing ${n} closing ]",
                 "Unbalanced " \o what \o ": Missing ${n} opening ["}}
\* one Error on the last line naming the magnitude and the direction of a
\* non-zero counter, none for a counter at zero
ReportsBalance(counter, what, closer, opener) ==
    IF counter = 0 THEN BalanceErrorsOf(what) = {}
    ELSE /\ Cardinality(BalanceErrorsOf(what)) = 1
         /\ \A k \in BalanceErrorsOf(what) :
               /\ diagnostics[k].severity = "Error"
               /\ diagnostics[k].line = Len(lines) - 1
               /\ diagnostics[k].startChar = 0
               /\ diagnostics[k].endChar = Len(lines[Len(lines)])
               /\ diagnostics[k].message.count = Abs(counter)
               /\ diagnostics[k].message.template =
                     IF counter > 0
                     THEN "Unbalanced " \o what \o ": Missing ${n} closing " \o closer
                     ELSE "Unbalanced " \o what \o ": Missing ${n} opening " \o opener

\* C24: after the scan each of the three counters that is non-zero gets
\* exactly one Error, on the last line of the document, stating the absolute
\* value of the counter and whether closers or openers are missing; a counter
\* at zero gets none, and no balance Error exists before the third pass.
C24_OneErrorPerNonZeroCounter ==
    /\ ValidateDone =>
          /\ ReportsBalance(bracketBalance, "braces", "}", "{")
          /\ ReportsBalance(parenBalance, "parentheses", ")", "(")
          /\ ReportsBalance(squareBracketBalance, "square brackets", "]", "[")
    /\ ~ValidateDone =>
          \A k \in 1..Len(diagnostics) : ~IsBalanceError(diagnostics[k])

\* all three counters are off, one of them by more than one, in both
\* directions, on a document of two lines
C24_Witness ==
    /\ ValidateDone
    /\ Len(lines) = 2
    /\ bracketBalance < -1
    /\ parenBalance > 0
    /\ squareBracketBalance < 0
    /\ Len(diagnostics) >= 3

\* the related locations are attached only with related-information support
\* and a document URI, are at most three, and each names a label of the
\* label table that passes the similarity test against the missing name
RelatedAreSimilarLabels(d) ==
    LET related == d.relatedInformation
    IN  /\ related # <<>> => (hasDiagnosticRelatedInfo /\ documentUri # "")
        /\ Len(related) <= 3
        /\ \A m \in 1..Len(related) :
              /\ related[m].uri = documentUri
              /\ SetHas(definedLabels, related[m].message.word)
              /\ IsSimilarLabel(related[m].message.word, d.message.word)
\* line n (1-based) is where the scan took the label L from
IsDefinedOn(n, L) ==
    n \in 1..Len(lines) /\ IsScanned(n) /\ LabelOfLine(ContentOfLine(n)) = L
RelatedPointAtDefinitions(d) ==
    \A m \in 1..Len(d.relatedInformation) :
        IsDefinedOn(d.relatedInformation[m].line + 1, d.relatedInformation[m].message.word)

\* C25 as stated: related locations are attached to a label-not-found
\* diagnostic only with related-information support and a document URI; they
\* are at most three, each for a defined label that passes the similarity
\* test, and each points at the line on which that label is defined.
C25_RelatedLocationsOfSimilarLabels ==
    ValidateDone =>
        \A k \in 1..Len(diagnostics) :
            IsLabelNotFound(diagnostics[k]) =>
                /\ RelatedAreSimilarLabels(diagnostics[k])
                /\ RelatedPointAtDefinitions(diagnostics[k])

\* the part of C25 that holds: when, how many and for which labels
RelatedLocationsOfSimilarLabels ==
    ValidateDone =>
        \A k \in 1..Len(diagnostics) :
            /\ IsLabelNotFound(diagnostics[k]) => RelatedAreSimilarLabels(diagnostics[k])
            /\ ~IsLabelNotFound(diagnostics[k]) => diagnostics[k].relatedInformation = <<>>

(***************************************************************************)
(* The lines the assignment-in-condition check applies to.                 *)
(***************************************************************************)
\* the leading token of the scanned text of line n is `if` or `while`
LeadsWithIfOrWhile(n) ==
    LET lower == ToLowerCase(ViewOfLine(n).trimmedLine)
    IN  StartsWithWord(lower, <<"i", "f">>) \/ StartsWithWord(lower, <<"w", "h", "i", "l", "e">>)    \* if | while

\* the scanned text of line n starts with the letters of `if` or `while`
StartsWithIfOrWhileLetters(n) ==
    LET lower == ToLowerCase(ViewOfLine(n).trimmedLine)
    IN  StartsWith(lower, <<"i", "f">>) \/ StartsWith(lower, <<"w", "h", "i", "l", "e">>)    \* if | while

\* C39: the assignment-in-condition Warning is produced only for lines whose
\* leading token is `if` or `while` in any letter case; a line whose first
\* identifier only starts with those letters never receives it.
C39_WarningOnlyOnIfOrWhileToken ==
    ValidateDone =>
        \A n \in 1..Len(lines) :
            AssignmentWarningsOfLine(n) # {} => (IsChecked(n) /\ LeadsWithIfOrWhile(n))

\* what the code keeps of C39: the Warning is produced only for checked lines
\* that start with the letters of `if` or `while`
WarningOnlyOnIfOrWhileLetters ==
    ValidateDone =>
        \A n \in 1..Len(lines) :
            AssignmentWarningsOfLine(n) # {}
                => (IsChecked(n) /\ StartsWithIfOrWhileLetters(n))

(***************************************************************************)
(* The external checker: validateWithSexec and its report parser.          *)
(***************************************************************************)
MaxRangeCharacter == 2147483647

DigitValue(c) == CHOOSE v \in 0..9 : <<"0", "1", "2", "3", "4", "5", "6", "7", "8", "9">>[v + 1] = c
\* parseInt of a string of decimal digits
RECURSIVE ParseInt(_)
ParseInt(digits) ==
    IF digits = <<>> THEN 0
    ELSE 10 * ParseInt(SubSeq(digits, 1, Len(digits) - 1)) + DigitValue(digits[Len(digits)])

\* the longest suffix of s made of decimal digits
DigitSuffix(s) ==
    LET stop == {k \in 1..Len(s) : s[k] \notin Digits}
    IN  IF stop = {} THEN s
        ELSE SubSeq(s, (CHOOSE k \in stop : \A m \in stop : k >= m) + 1, Len(s))

\* line.match(/^([EW]): \((.*), (\d+)\):$/): whether it matches, and groups 1 to 3
LocationMatch(line) ==
    LET body == SubSeq(line, 5, Len(line) - 2)
        digits == DigitSuffix(body)
        file == SubSeq(body, 1, Len(body) - Len(digits) - 2)
        ok == /\ Len(line) >= 10
              /\ line[1] \in {"E", "W"}
              /\ SubSeq(line, 2, 4) = <<":", " ", "(">>
              /\ EndsWith(line, <<")", ":">>)
              /\ digits # <<>>
              /\ EndsWith(SubSeq(body, 1, Len(body) - Len(digits)), <<",", " ">>)
    IN  [matches |-> ok,
         type |-> IF ok THEN line[1] ELSE "",
         file |-> IF ok THEN file ELSE <<>>,
         number |-> IF ok THEN ParseInt(digits) ELSE 0]

LocationLineOneBased(match) == match.number

\* parseInt(locMatch[3]) - 1
LocationLine(match) == match.number - 1

Marker == <<"^", "~", "^", "~", "^">>    \* ^~^~^

\* line.split('^~^~^')[1] of a line that includes the marker
AfterMarker(line) ==
    LET rest == Substring(line, IndexOf(line, Marker) + Len(Marker))
    IN  IF Includes(rest, Marker) THEN SubSeq(rest, 1, IndexOf(rest, Marker)) ELSE rest

CategoryPhrases ==
    {<<"S", "c", "r", "i", "p", "t", " ", "W", "a", "r", "n", "i", "n", "g">>, <<"S", "c", "r", "i", "p", "t", " ", "f", "i", "l", "e", " ", "c", "o", "m", "p", "i", "l", "e", " ", "e", "r", "r", "o", "r">>, <<"S", "c", "r", "i", "p", "t", " ", "e", "x", "e", "c", "u", "t", "i", "o", "n", " ", "f", "a", "i", "l", "e", "d">>}    \* Script Warning | Script file compile error | Script execution failed

StripCategoryNever(message) == message

\* message.replace(/^Script (Warning|file compile error|execution failed)\s*:\s*/, '')
StripCategory(message) ==
    LET found == {p \in CategoryPhrases :
                     /\ StartsWith(message, p)
                     /\ StartsWith(TrimStart(Substring(message, Len(p))), <<":">>)}
    IN  IF found = {} THEN message
        ELSE LET p == CHOOSE q \in found : TRUE
             IN  TrimStart(Substring(TrimStart(Substring(message, Len(p))), 1))

\* message.replace(/^Couldn't parse '.*'\s*:\s*/, '')
StripCouldntParse(message) ==
    LET head == <<"C", "o", "u", "l", "d", "n", "'", "t", " ", "p", "a", "r", "s", "e", " ", "'">>    \* Couldn't parse '
        ends == {q \in (Len(head) + 1)..Len(message) :
                    /\ message[q] = "'"
                    /\ StartsWith(TrimStart(Substring(message, q)), <<":">>)}
    IN  IF ~StartsWith(message, head) \/ ends = {} THEN message
        ELSE LET q == CHOOSE e \in ends : \A m \in ends : e >= m
             IN  TrimStart(Substring(TrimStart(Substring(message, q)), 1))

\* the message of a marker line with the category phrases removed
CleanMessage(line) == Trim(StripCouldntParse(Trim(StripCategory(Trim(AfterMarker(line))))))

SexecDiagnostic(severity, n, message) ==
    [severity |-> severity, line |-> n, startChar |-> 0, endChar |-> MaxRangeCharacter,
     message |-> message, source |-> "morfuse", relatedInformation |-> <<>>]

\* `.tmp_${fileName}`
TempFileName(name) == <<".", "t", "m", "p", "_">> \o name    \* .tmp_

IsCheckedFileAny(file, name) == TRUE

\* currentFile === tempFileName || currentFile === fileName
IsCheckedFile(file, name) == file = TempFileName(name) \/ file = name

ReportVocabulary ==
    { <<"W", ":", " ", "(", "t", "e", "s", "t", ".", "s", "c", "r", ",", " ", "3", ")", ":">>,    \* W: (test.scr, 3):
      <<"W", ":", " ", "e", "x", "e", "c", " ", "g", "l", "o", "b", "a", "l", "/", "a", ".", "s", "c", "r">>,    \* W: exec global/a.scr
      <<"W", ":", " ", "^">>,    \* W: ^
      <<"W", ":", " ", "^", "~", "^", "~", "^", " ", "S", "c", "r", "i", "p", "t", " ", "W", "a", "r", "n", "i", "n", "g", " ", ":", " ", "m", "e", "s", "s", "a", "g", "e", " ", "t", "e", "x", "t">>,    \* W: ^~^~^ Script Warning : message text
      <<"W", ":", " ", "^", "~", "~", "~", "^", " ", "S", "c", "r", "i", "p", "t", " ", "W", "a", "r", "n", "i", "n", "g", " ", ":", " ", "m", "e", "s", "s", "a", "g", "e", " ", "t", "e", "x", "t">>,    \* W: ^~~~^ Script Warning : message text
      <<"E", ":", " ", "(", ".", "t", "m", "p", "_", "t", "e", "s", "t", ".", "s", "c", "r", ",", " ", "1", "2", ")", ":">>,    \* E: (.tmp_test.scr, 12):
      <<"E", ":", " ", "(", "a", "i", ".", "s", "c", "r", ",", " ", "7", ")", ":">>,    \* E: (ai.scr, 7):
      <<"E", ":", " ", "^", "~", "^", "~", "^", " ", "S", "c", "r", "i", "p", "t", " ", "f", "i", "l", "e", " ", "c", "o", "m", "p", "i", "l", "e", " ", "e", "r", "r", "o", "r", ":", " ", "C", "o", "u", "l", "d", "n", "'", "t", " ", "p", "a", "r", "s", "e", " ", "'", "a", "i", ".", "s", "c", "r", "'", ":", " ", "'", "b", "a", "d", " ", "}", "'">>,    \* E: ^~^~^ Script file compile error: Couldn't parse 'ai.scr': 'bad }'
      <<>> }

\* whole reports of the shape the checker prints, with more than one entry
ReportExamples ==
    { << <<"E", ":", " ", "(", "a", "i", ".", "s", "c", "r", ",", " ", "7", ")", ":">>,    \* E: (ai.scr, 7):
         <<"E", ":", " ", "^", "~", "^", "~", "^", " ", "S", "c", "r", "i", "p", "t", " ", "f", "i", "l", "e", " ", "c", "o", "m", "p", "i", "l", "e", " ", "e", "r", "r", "o", "r", ":", " ", "C", "o", "u", "l", "d", "n", "'", "t", " ", "p", "a", "r", "s", "e", " ", "'", "a", "i", ".", "s", "c", "r", "'", ":", " ", "'", "b", "a", "d", " ", "}", "'">>,    \* E: ^~^~^ Script file compile error: Couldn't parse 'ai.scr': 'bad }'
         <<"W", ":", " ", "(", "t", "e", "s", "t", ".", "s", "c", "r", ",", " ", "3", ")", ":">>,    \* W: (test.scr, 3):
         <<"W", ":", " ", "^">>,    \* W: ^
         <<"W", ":", " ", "^", "~", "^", "~", "^", " ", "S", "c", "r", "i", "p", "t", " ", "W", "a", "r", "n", "i", "n", "g", " ", ":", " ", "m", "e", "s", "s", "a", "g", "e", " ", "t", "e", "x", "t">> >>,    \* W: ^~^~^ Script Warning : message text
      << <<"E", ":", " ", "(", ".", "t", "m", "p", "_", "t", "e", "s", "t", ".", "s", "c", "r", ",", " ", "1", "2", ")", ":">>,    \* E: (.tmp_test.scr, 12):
         <<"E", ":", " ", "}">>,    \* E: }
         <<"E", ":", " ", "^">>,    \* E: ^
         <<"E", ":", " ", "^", "~", "^", "~", "^", " ", "S", "c", "r", "i", "p", "t", " ", "f", "i", "l", "e", " ", "c", "o", "m", "p", "i", "l", "e", " ", "e", "r", "r", "o", "r", ":", " ", "C", "o", "u", "l", "d", "n", "'", "t", " ", "p", "a", "r", "s", "e", " ", "'", "a", "i", ".", "s", "c", "r", "'", ":", " ", "'", "b", "a", "d", " ", "}", "'">>,    \* E: ^~^~^ Script file compile error: Couldn't parse 'ai.scr': 'bad }'
         <<"W", ":", " ", "^", "~", "^", "~", "^", " ", "S", "c", "r", "i", "p", "t", " ", "W", "a", "r", "n", "i", "n", "g", " ", ":", " ", "m", "e", "s", "s", "a", "g", "e", " ", "t", "e", "x", "t">> >>,    \* W: ^~^~^ Script Warning : message text
      << <<"W", ":", " ", "(", "t", "e", "s", "t", ".", "s", "c", "r", ",", " ", "3", ")", ":">>,    \* W: (test.scr, 3):
         <<"E", ":", " ", "(", "a", "i", ".", "s", "c", "r", ",", " ", "x", ")", ":">>,    \* E: (ai.scr, x):
         <<" ", " ", "W", ":", " ", "^", "~", "^", "~", "^", " ", "S", "c", "r", "i", "p", "t", " ", "e", "x", "e", "c", "u", "t", "i", "o", "n", " ", "f", "a", "i", "l", "e", "d", ":", " ", "m", "e", "s", "s", "a", "g", "e", " ", "t", "e", "x", "t", " ", " ">>,    \*   W: ^~^~^ Script execution failed: message text  
         <<"E", ":", " ", "(", "t", "e", "s", "t", ".", "s", "c", "r", ",", " ", "1", ")", ":">>,    \* E: (test.scr, 1):
         <<"E", ":", " ", "^", "~", "^", "~", "^", " ", "m", "e", "s", "s", "a", "g", "e", " ", "t", "e", "x", "t">> >> }    \* E: ^~^~^ message text

Reports == (SeqsUpTo(ReportVocabulary, MaxReportLines) \ {<<>>}) \cup ReportExamples

DocumentNames == {<<"t", "e", "s", "t", ".", "s", "c", "r">>, <<"a", "i", ".", "s", "c", "r">>}    \* test.scr | ai.scr

SexecEnvironments ==
    [sexecExists : BOOLEAN, scheme : {"file", "untitled"}, writable : BOOLEAN,
     spawns : BOOLEAN]

InitSexec ==
    /\ FormatIdle
    /\ ValidatorIdle
    /\ ServerIdle
    /\ fileName \in DocumentNames
    /\ environment \in SexecEnvironments
    /\ output \in Reports
    /\ tempFileExists = FALSE
    /\ currentFile = <<>>
    /\ currentLine = 0
    /\ currentSeverity = "null"
    /\ lines = <<>>
    /\ i = 0
    /\ pc = "start"

\* no checker, or not a file: resolve([])
SexecUnavailable ==
    /\ pc = "start"
    /\ ~environment.sexecExists \/ environment.scheme # "file"
    /\ pc' = "resolved"
    /\ UNCHANGED <<dvars, lines, i, fvars, vvars, svars>>

\* fs.writeFileSync(tempFilePath, ...) throws: resolve([])
SexecWriteFails ==
    /\ pc = "start"
    /\ environment.sexecExists /\ environment.scheme = "file"
    /\ ~environment.writable
    /\ pc' = "resolved"
    /\ UNCHANGED <<dvars, lines, i, fvars, vvars, svars>>

\* the temporary file is written and the process is started
SexecSpawn ==
    /\ pc = "start"
    /\ environment.sexecExists /\ environment.scheme = "file"
    /\ environment.writable
    /\ tempFileExists' = TRUE
    /\ pc' = "running"
    /\ UNCHANGED <<dvars, lines, i, fvars, vvars, sinputs, currentFile, currentLine,
                   currentSeverity>>

\* sexecProcess.on('error'): cleanupTempFile(); resolve([])
SexecError ==
    /\ pc = "running"
    /\ ~environment.spawns
    /\ tempFileExists' = FALSE
    /\ pc' = "resolved"
    /\ UNCHANGED <<dvars, lines, i, fvars, vvars, sinputs, currentFile, currentLine,
                   currentSeverity>>

\* sexecProcess.on('close'): cleanupTempFile(); lines = output.split('\n')
SexecClose ==
    /\ pc = "running"
    /\ environment.spawns
    /\ tempFileExists' = FALSE
    /\ lines' = output
    /\ i' = 0
    /\ pc' = "parse"
    /\ UNCHANGED <<dvars, fvars, vvars, sinputs, currentFile, currentLine, currentSeverity>>

\* one iteration of the loop over the report lines
ParseReportLine ==
    /\ pc = "parse"
    /\ i < Len(lines)
    /\ LET line == Trim(lines[i + 1])
           locMatch == LocationMatch(line)
       IN  /\ i' = i + 1
           /\ IF locMatch.matches
              THEN /\ currentFile' = locMatch.file
                   /\ currentLine' = LocationLine(locMatch)
                   /\ currentSeverity' = IF locMatch.type = "E" THEN "Error" ELSE "Warning"
                   /\ UNCHANGED diagnostics
              ELSE IF Includes(line, Marker) /\ currentSeverity # "null"
              THEN /\ diagnostics' =
                         IF IsCheckedFile(currentFile, fileName)
                         THEN Append(diagnostics,
                                  SexecDiagnostic(currentSeverity, currentLine,
                                                  CleanMessage(line)))
                         ELSE diagnostics
                   /\ currentSeverity' = "null"
                   /\ UNCHANGED <<currentFile, currentLine>>
              ELSE UNCHANGED <<diagnostics, currentFile, currentLine, currentSeverity>>
    /\ UNCHANGED <<dvars, lines, pc, fvars, vinputs, bracketBalance, parenBalance,
                   squareBracketBalance, definedLabels, threadCalls, inBlockComment,
                   sinputs, tempFileExists>>

\* resolve(diagnostics)
SexecResolve ==
    /\ pc = "parse"
    /\ i = Len(lines)
    /\ pc' = "resolved"
    /\ UNCHANGED <<dvars, lines, i, fvars, vvars, svars>>

NextSexec ==
    \/ SexecUnavailable
    \/ SexecWriteFails
    \/ SexecSpawn
    \/ SexecError
    \/ SexecClose
    \/ ParseReportLine
    \/ SexecResolve

SpecSexec == InitSexec /\ [][NextSexec]_vars

(***************************************************************************)
(* Properties of the report parser.                                        *)
(***************************************************************************)
LocationOfTestScr3 == <<"W", ":", " ", "(", "t", "e", "s", "t", ".", "s", "c", "r", ",", " ", "3", ")", ":">>    \* W: (test.scr, 3):
ParsedFor(name, report) ==
    pc = "resolved" /\ environment.spawns /\ fileName = name /\ lines = report
OneWarningOnLine2 ==
    /\ Len(diagnostics) = 1
    /\ diagnostics[1].severity = "Warning"
    /\ diagnostics[1].line = 2
    /\ diagnostics[1].message = <<"m", "e", "s", "s", "a", "g", "e", " ", "t", "e", "x", "t">>    \* message text

IsHeader(line) == LocationMatch(Trim(line)).matches
IsMarkerLine(line) == ~IsHeader(line) /\ Includes(Trim(line), Marker)

\* the index of the location header whose entry holds line k, 0 if none
HeaderOf(report, k) ==
    LET before == {h \in 1..k : IsHeader(report[h])}
    IN  IF before = {} THEN 0 ELSE CHOOSE h \in before : \A g \in before : g <= h

NamesCheckedFile(report, h) ==
    LET file == LocationMatch(Trim(report[h])).file
    IN  file = fileName \/ file = TempFileName(fileName)

ParseStep == pc = "parse" /\ i' = i + 1

\* C33: a line in an entry whose location header names a file other than the
\* checked document or its temporary copy adds no diagnostic, and a line that
\* is neither a location header nor a marker line changes neither the
\* diagnostics nor the entry being read.
C33_OtherFilesAndUnrecognisedLinesIgnored ==
    [][ParseStep =>
          LET h == HeaderOf(lines, i + 1)
          IN  /\ (h # 0 /\ ~NamesCheckedFile(lines, h)) => diagnostics' = diagnostics
              /\ (~IsHeader(lines[i + 1]) /\ ~IsMarkerLine(lines[i + 1]))
                     => UNCHANGED <<diagnostics, currentFile, currentLine, currentSeverity>>
      ]_vars

\* a marker line of an entry for ai.scr, and a line of neither form inside an
\* entry for test.scr, were read for test.scr and one diagnostic was produced
C33_Witness ==
    /\ ParsedFor(<<"t", "e", "s", "t", ".", "s", "c", "r">>,    \* test.scr
                 << <<"E", ":", " ", "(", "a", "i", ".", "s", "c", "r", ",", " ", "7", ")", ":">>,    \* E: (ai.scr, 7):
                    <<"E", ":", " ", "^", "~", "^", "~", "^", " ", "S", "c", "r", "i", "p", "t", " ", "f", "i", "l", "e", " ", "c", "o", "m", "p", "i", "l", "e", " ", "e", "r", "r", "o", "r", ":", " ", "C", "o", "u", "l", "d", "n", "'", "t", " ", "p", "a", "r", "s", "e", " ", "'", "a", "i", ".", "s", "c", "r", "'", ":", " ", "'", "b", "a", "d", " ", "}", "'">>,    \* E: ^~^~^ Script file compile error: Couldn't parse 'ai.scr': 'bad }'
                    LocationOfTestScr3, <<"W", ":", " ", "^">>,    \* W: ^
                    <<"W", ":", " ", "^", "~", "^", "~", "^", " ", "S", "c", "r", "i", "p", "t", " ", "W", "a", "r", "n", "i", "n", "g", " ", ":", " ", "m", "e", "s", "s", "a", "g", "e", " ", "t", "e", "x", "t">> >>)    \* W: ^~^~^ Script Warning : message text
    /\ Len(diagnostics) = 1

\* the text of a marker line after the marker
MarkerText(line) == Trim(AfterMarker(Trim(line)))

\* text without a leading `<phrase> :`
WithoutPhrase(text, phrase) ==
    LET colons == {c \in (Len(phrase) + 1)..Len(text) :
                      /\ text[c] = ":"
                      /\ \A k \in (Len(phrase) + 1)..(c - 1) : IsSpace(text[k])}
    IN  IF StartsWith(text, phrase) /\ colons # {}
        THEN Trim(SubSeq(text, (CHOOSE c \in colons : TRUE) + 1, Len(text)))
        ELSE text

\* the marker text with the category phrase, and the name of the script that
\* could not be parsed, removed
WithoutCategory(text) ==
    LET phrases == {p \in CategoryPhrases : WithoutPhrase(text, p) # text}
        rest == IF phrases = {} THEN text
                ELSE WithoutPhrase(text, CHOOSE p \in phrases : TRUE)
    IN  Trim(StripCouldntParse(rest))

\* the first header or marker line after line h, 0 if none
NextHeaderOrMarker(report, h) ==
    LET later == {m \in (h + 1)..Len(report) :
                     IsHeader(report[m]) \/ IsMarkerLine(report[m])}
    IN  IF later = {} THEN 0 ELSE CHOOSE m \in later : \A n \in later : m <= n

\* the diagnostics the entries from line h on stand for: one for each location
\* header naming the checked file whose entry holds a marker line
RECURSIVE EntryDiagnostics(_, _)
EntryDiagnostics(report, h) ==
    IF h > Len(report) THEN <<>>
    ELSE LET m == NextHeaderOrMarker(report, h)
             loc == LocationMatch(Trim(report[h]))
         IN  IF IsHeader(report[h]) /\ NamesCheckedFile(report, h)
                /\ m # 0 /\ IsMarkerLine(report[m])
             THEN << [severity |-> IF loc.type = "E" THEN "Error" ELSE "Warning",
                      line |-> loc.number - 1,
                      message |-> WithoutCategory(MarkerText(report[m]))] >>
                  \o EntryDiagnostics(report, h + 1)
             ELSE EntryDiagnostics(report, h + 1)

ReportedDiagnostics ==
    [k \in 1..Len(diagnostics) |->
        [severity |-> diagnostics[k].severity, line |-> diagnostics[k].line,
         message |-> diagnostics[k].message]]

\* C34: the parsed report yields exactly one diagnostic for each location
\* header naming the checked file whose entry holds a marker line, with the
\* header's severity, zero-based line n-1 and the marker text without its
\* category phrase; a second marker line of the same entry yields nothing.
C34_OneDiagnosticPerEntry ==
    (pc = "resolved" /\ environment.spawns)
        => ReportedDiagnostics = EntryDiagnostics(lines, 1)

\* an Error entry for the temporary copy with two marker lines was parsed
C34_Witness ==
    /\ ParsedFor(<<"t", "e", "s", "t", ".", "s", "c", "r">>,    \* test.scr
                 << <<"E", ":", " ", "(", ".", "t", "m", "p", "_", "t", "e", "s", "t", ".", "s", "c", "r", ",", " ", "1", "2", ")", ":">>, <<"E", ":", " ", "}">>, <<"E", ":", " ", "^">>,    \* E: (.tmp_test.scr, 12): | E: } | E: ^
                    <<"E", ":", " ", "^", "~", "^", "~", "^", " ", "S", "c", "r", "i", "p", "t", " ", "f", "i", "l", "e", " ", "c", "o", "m", "p", "i", "l", "e", " ", "e", "r", "r", "o", "r", ":", " ", "C", "o", "u", "l", "d", "n", "'", "t", " ", "p", "a", "r", "s", "e", " ", "'", "a", "i", ".", "s", "c", "r", "'", ":", " ", "'", "b", "a", "d", " ", "}", "'">>,    \* E: ^~^~^ Script file compile error: Couldn't parse 'ai.scr': 'bad }'
                    <<"W", ":", " ", "^", "~", "^", "~", "^", " ", "S", "c", "r", "i", "p", "t", " ", "W", "a", "r", "n", "i", "n", "g", " ", ":", " ", "m", "e", "s", "s", "a", "g", "e", " ", "t", "e", "x", "t">> >>)    \* W: ^~^~^ Script Warning : message text
    /\ ReportedDiagnostics =
           << [severity |-> "Error", line |-> 11, message |-> <<"'", "b", "a", "d", " ", "}", "'">>] >>    \* 'bad }'

(***************************************************************************)
(* The server: validateTextDocument and the events that call it.           *)
(***************************************************************************)
ValidationSettings ==
    [enable : BOOLEAN, sexecPath : {"", "/opt/mfuse_exec"},
     trigger : {"onSave", "onChange", "disabled"}]

\* the surroundings of the checker: everything works, or one thing fails
ServerEnvironments ==
    { e \in SexecEnvironments :
        Cardinality({f \in {"sexecExists", "writable", "spawns"} : ~e[f]}
                        \cup (IF e.scheme = "file" THEN {} ELSE {"scheme"})) <= 1 }

ShouldRunSexecOnEveryTrigger(validationTrigger, trigger) == validationTrigger # "disabled"

\* the external checker is run for this call
ShouldRunSexec(validationTrigger, trigger) ==
    /\ validationTrigger # "disabled"
    /\ \/ validationTrigger = "onChange"
       \/ validationTrigger = "onSave" /\ trigger = "onSave"

\* what validateText returns for the text with the given version
OwnDiagnostics(version) == <<[source |-> "morpheus-lsp", version |-> version]>>
\* what validateWithSexec may resolve with when the process of a call closes
SexecReports(r) == {<<>>, <<[source |-> "morfuse", validation |-> r]>>}

\* the document of the model
TheDocument == "file:///maps/test.scr"

\* the table loadCommands reads from commands.json
LoadedCommands == {<<"S", "a", "y">>}

\* a call of validateTextDocument that waits for getDocumentSettings; without
\* the configuration capability the promise already holds globalSettings
NewValidation(cause, trigger, global) ==
    [cause |-> cause, trigger |-> trigger, pc |-> "settings", settings |-> defaultSettings,
     version |-> 0, validated |-> FALSE, sexec |-> "not called", spawned |-> 0,
     resolved |-> global, commands |-> {}]

\* the keys of the settings cache after getDocumentSettings(TheDocument)
GetDocumentSettings ==
    IF hasConfigurationCapability THEN documentSettings \cup {TheDocument}
    ELSE documentSettings

\* connection.sendDiagnostics by call r
SendDiagnostics(r, diagnosticList) == Append(sent, [validation |-> r, diagnostics |-> diagnosticList])

InitServer ==
    /\ FormatIdle
    /\ ValidatorIdle
    /\ lines = <<>>
    /\ i = 0
    /\ pc = "serve"
    /\ fileName = <<>>
    /\ environment \in ServerEnvironments
    /\ output = <<>>
    /\ tempFileExists = FALSE
    /\ currentFile = <<>>
    /\ currentLine = 0
    /\ currentSeverity = "null"
    /\ documentVersion = 0
    /\ settings \in ValidationSettings
    \* the client answers workspace/configuration requests, and loadCommands
    \* has returned without finding commands.json
    /\ hasConfigurationCapability = TRUE
    /\ loadCommandsPc = "done"
    /\ globalSettings = defaultGlobalSettings
    /\ documents = {}
    /\ documentSettings = {}
    /\ validations = <<>>
    /\ sent = <<>>
    /\ tempFileText = 0
    /\ exitListeners = 0
    /\ hostExited = FALSE

\* documents.onDidChangeContent: the document was opened or edited
OnDidChangeContent ==
    /\ ~hostExited
    /\ documentVersion < MaxEdits
    /\ Len(validations) < MaxValidations
    /\ documentVersion' = documentVersion + 1
    /\ documents' = {TheDocument}
    /\ documentSettings' = GetDocumentSettings
    /\ validations' = Append(validations, NewValidation("change", "onChange", globalSettings))
    /\ UNCHANGED <<lines, i, pc, fvars, vvars, svars, settings, sent, tempFileText,
                   exitListeners, hostExited, hasConfigurationCapability, loadCommandsPc,
                   globalSettings>>

\* documents.onDidSave
OnDidSave ==
    /\ ~hostExited
    /\ TheDocument \in documents
    /\ Len(validations) < MaxValidations
    /\ documentSettings' = GetDocumentSettings
    /\ validations' = Append(validations, NewValidation("save", "onSave", globalSettings))
    /\ UNCHANGED <<lines, i, pc, fvars, vvars, svars, documentVersion, settings, sent,
                   tempFileText, exitListeners, hostExited, hasConfigurationCapability,
                   loadCommandsPc, globalSettings, documents>>

\* change.settings.morpheus || defaultSettings: the morpheus section of the
\* notification, which has no key morpheus of its own, or defaultSettings
ChangedGlobalSettings(present, section) ==
    IF present THEN [hasMorpheus |-> FALSE, validation |-> section]
    ELSE defaultGlobalSettings

\* connection.onDidChangeConfiguration: the cache is cleared, or globalSettings
\* is replaced, and every open document is validated again
OnDidChangeConfiguration ==
    /\ ~hostExited
    /\ Len(validations) < MaxValidations
    /\ IF hasConfigurationCapability
       THEN \* the configuration the client will answer with has changed
            /\ \E s \in ValidationSettings \ {settings} : settings' = s
            /\ UNCHANGED globalSettings
       ELSE /\ \E s \in ValidationSettings, present \in BOOLEAN :
                  globalSettings' = ChangedGlobalSettings(present, s)
            /\ UNCHANGED settings
    /\ IF TheDocument \in documents
       THEN /\ validations' = Append(validations,
                                  NewValidation("configuration", "onChange", globalSettings'))
            /\ documentSettings' = IF hasConfigurationCapability THEN {TheDocument}
                                   ELSE documentSettings
       ELSE /\ UNCHANGED validations
            /\ documentSettings' = IF hasConfigurationCapability THEN {}
                                   ELSE documentSettings
    /\ UNCHANGED <<lines, i, pc, fvars, vvars, svars, documentVersion, sent, tempFileText,
                   exitListeners, hostExited, hasConfigurationCapability, loadCommandsPc,
                   documents>>

OnDidCloseKeepingSettings ==
    /\ ~hostExited
    /\ TheDocument \in documents
    /\ documents' = documents \ {TheDocument}
    /\ UNCHANGED <<lines, i, pc, fvars, vvars, svars, documentVersion, settings, validations,
                   sent, tempFileText, exitListeners, hostExited,
                   hasConfigurationCapability, loadCommandsPc, globalSettings,
                   documentSettings>>

\* documents.onDidClose: documentSettings.delete(e.document.uri)
OnDidClose ==
    /\ ~hostExited
    /\ TheDocument \in documents
    /\ documents' = documents \ {TheDocument}
    /\ documentSettings' = documentSettings \ {TheDocument}
    /\ UNCHANGED <<lines, i, pc, fvars, vvars, svars, documentVersion, settings, validations,
                   sent, tempFileText, exitListeners, hostExited,
                   hasConfigurationCapability, loadCommandsPc, globalSettings>>

\* connection.onDocumentFormatting up to its await: a request for a document
\* that is not open returns before getDocumentSettings is called
OnDocumentFormatting ==
    /\ ~hostExited
    /\ TheDocument \in documents
    /\ documentSettings' = GetDocumentSettings
    /\ UNCHANGED <<lines, i, pc, fvars, vvars, svars, documentVersion, settings, validations,
                   sent, tempFileText, exitListeners, hostExited,
                   hasConfigurationCapability, loadCommandsPc, globalSettings, documents>>

\* loadCommands after its await of getConfiguration: commands.json is read
\* and parsed, or it is not found
LoadCommands ==
    /\ ~hostExited
    /\ loadCommandsPc = "configuration"
    /\ loadCommandsPc' = "done"
    /\ commands' \in {{}, LoadedCommands}
    /\ UNCHANGED <<lines, i, pc, fvars, documentUri, hasDiagnosticRelatedInfo, bracketBalance,
                   parenBalance, squareBracketBalance, definedLabels, threadCalls,
                   inBlockComment, diagnostics, svars, documentVersion, settings, validations,
                   sent, tempFileText, exitListeners, hostExited,
                   hasConfigurationCapability, globalSettings, documents, documentSettings>>

OnSexecErrorKeepingTempFile ==
    [sexec |-> "spawn error", pc |-> "failed", wrote |-> TRUE, tempFile |-> TRUE,
     diagnostics |-> <<>>]

OnSexecErrorWithReport ==
    [sexec |-> "spawn error", pc |-> "failed", wrote |-> TRUE, tempFile |-> FALSE,
     diagnostics |-> <<[source |-> "morfuse", validation |-> 0]>>]

\* sexecProcess.on('error'): cleanupTempFile(); resolve([]).  The event of a
\* process that could not be started is emitted on the next tick, before
\* any other event is handled.
OnSexecError ==
    [sexec |-> "spawn error", pc |-> "failed", wrote |-> TRUE, tempFile |-> FALSE,
     diagnostics |-> <<>>]

\* validateWithSexec up to the point where it resolves or waits for the
\* process: how it ends, whether it wrote the temporary file, whether the
\* file exists afterwards, and what it resolved with
ValidateWithSexec ==
    IF ~environment.sexecExists \/ environment.scheme # "file"
    THEN [sexec |-> "unavailable", pc |-> "done", wrote |-> FALSE,
          tempFile |-> tempFileExists, diagnostics |-> <<>>]
    ELSE IF ~environment.writable
    THEN [sexec |-> "write failed", pc |-> "done", wrote |-> FALSE,
          tempFile |-> tempFileExists, diagnostics |-> <<>>]
    ELSE IF ~environment.spawns
    THEN OnSexecError
    ELSE [sexec |-> "spawned", pc |-> "running", wrote |-> TRUE, tempFile |-> TRUE,
          diagnostics |-> <<>>]

ValidateTextDocumentAlways(r) ==
    /\ ~hostExited
    /\ r \in 1..Len(validations)
    /\ validations[r].pc = "settings"
    /\ sent' = SendDiagnostics(r, OwnDiagnostics(documentVersion))
    /\ validations' = [validations EXCEPT
           ![r] = [validations[r] EXCEPT !.settings = settings, !.pc = "done",
                                         !.version = documentVersion, !.validated = TRUE]]
    /\ UNCHANGED <<lines, i, pc, fvars, vvars, svars, documentVersion, settings,
                   tempFileText, exitListeners, hostExited, hasConfigurationCapability, loadCommandsPc, globalSettings,
                   documents, documentSettings>>

\* validateTextDocument from the answer of getDocumentSettings up to its
\* return, or up to the point where it waits for the checker process.  The
\* settings and the text are those in effect when the answer arrives.
ValidateTextDocument(r) ==
    /\ ~hostExited
    /\ r \in 1..Len(validations)
    /\ validations[r].pc = "settings"
    /\ LET resolved == validations[r].resolved
           \* settings.morpheus.validation of the awaited settings
           validation == IF hasConfigurationCapability THEN settings
                         ELSE resolved.validation
           call == [validations[r] EXCEPT !.settings = validation]
           read == [call EXCEPT !.version = documentVersion, !.validated = TRUE,
                                !.commands = commands]
           own == OwnDiagnostics(documentVersion)
           started == ValidateWithSexec
       IN  IF ~hasConfigurationCapability /\ ~resolved.hasMorpheus
           THEN \* settings.morpheus is undefined: the call ends with a TypeError
                /\ validations' = [validations EXCEPT ![r].pc = "threw"]
                /\ UNCHANGED <<sent, tempFileExists, tempFileText, exitListeners>>
           ELSE IF ~validation.enable
           THEN \* validation is switched off
                /\ sent' = SendDiagnostics(r, <<>>)
                /\ validations' = [validations EXCEPT ![r] = [call EXCEPT !.pc = "done"]]
                /\ UNCHANGED <<tempFileExists, tempFileText, exitListeners>>
           ELSE IF ~(ShouldRunSexec(validation.trigger, call.trigger)
                     /\ validation.sexecPath # "")
           THEN /\ sent' = SendDiagnostics(r, own)
                /\ validations' = [validations EXCEPT ![r] = [read EXCEPT !.pc = "done"]]
                /\ UNCHANGED <<tempFileExists, tempFileText, exitListeners>>
           ELSE /\ tempFileExists' = started.tempFile
                /\ tempFileText' = IF started.wrote THEN documentVersion ELSE tempFileText
                /\ exitListeners' = IF started.wrote THEN exitListeners + 1 ELSE exitListeners
                /\ sent' = IF started.pc = "running" THEN sent
                           ELSE SendDiagnostics(r, own \o started.diagnostics)
                /\ validations' = [validations EXCEPT
                       ![r] = [read EXCEPT !.pc = started.pc, !.sexec = started.sexec,
                                           !.spawned = IF started.wrote THEN 1 ELSE 0]]
    /\ UNCHANGED <<lines, i, pc, fvars, vvars, sinputs, currentFile, currentLine,
                   currentSeverity, documentVersion, settings, hostExited,
                   hasConfigurationCapability, loadCommandsPc, globalSettings,
                   documents, documentSettings>>

\* sexecProcess.on('close'), and the rest of validateTextDocument
OnSexecClose(r) ==
    /\ ~hostExited
    /\ r \in 1..Len(validations)
    /\ validations[r].pc = "running"
    /\ environment.spawns
    /\ tempFileExists' = FALSE
    /\ \E report \in SexecReports(r) :
          sent' = SendDiagnostics(r, OwnDiagnostics(validations[r].version) \o report)
    /\ validations' = [validations EXCEPT ![r].pc = "done", ![r].sexec = "closed"]
    /\ UNCHANGED <<lines, i, pc, fvars, vvars, sinputs, currentFile, currentLine,
                   currentSeverity, documentVersion, settings, tempFileText, exitListeners,
                   hostExited, hasConfigurationCapability, loadCommandsPc, globalSettings,
                   documents, documentSettings>>

\* the 'close' event that follows the 'error' event of a process that did
\* not start: cleanupTempFile() runs again, resolve() has no effect any more
OnSexecCloseAfterError(r) ==
    /\ ~hostExited
    /\ r \in 1..Len(validations)
    /\ validations[r].pc = "failed"
    /\ tempFileExists' = FALSE
    /\ validations' = [validations EXCEPT ![r].pc = "done"]
    /\ UNCHANGED <<lines, i, pc, fvars, vvars, sinputs, currentFile, currentLine,
                   currentSeverity, documentVersion, settings, sent, tempFileText,
                   exitListeners, hostExited, hasConfigurationCapability, loadCommandsPc, globalSettings,
                   documents, documentSettings>>

\* the server process exits: the registered 'exit' listeners run
OnProcessExit ==
    /\ ~hostExited
    /\ hostExited' = TRUE
    /\ tempFileExists' = IF exitListeners > 0 THEN FALSE ELSE tempFileExists
    /\ UNCHANGED <<lines, i, pc, fvars, vvars, sinputs, currentFile, currentLine,
                   currentSeverity, documentVersion, settings, validations, sent,
                   tempFileText, exitListeners, hasConfigurationCapability, loadCommandsPc, globalSettings,
                   documents, documentSettings>>

NextServer ==
    \/ OnDidChangeContent
    \/ OnDidSave
    \/ OnDidChangeConfiguration
    \/ \E r \in 1..MaxValidations : ValidateTextDocument(r)
    \/ \E r \in 1..MaxValidations : OnSexecClose(r)
    \/ \E r \in 1..MaxValidations : OnSexecCloseAfterError(r)
    \/ OnProcessExit

SpecServer == InitServer /\ [][NextServer]_vars

\* The answer of getDocumentSettings arrives; nothing makes a started
\* process finish.
SpecServerFair ==
    /\ SpecServer
    /\ \A r \in 1..MaxValidations : WF_vars(ValidateTextDocument(r))

(***************************************************************************)
(* The session from onInitialized on: loadCommands may still wait for the  *)
(* client's configuration, the client may lack workspace/configuration,    *)
(* and the document is closed and opened again.  No checker is installed:  *)
(* validateWithSexec resolves with [] at once.                             *)
(***************************************************************************)
SessionEnvironments ==
    {e \in ServerEnvironments : ~e.sexecExists}

InitSession ==
    /\ FormatIdle
    /\ ValidatorLocalsIdle
    /\ lines = <<>>
    /\ i = 0
    /\ pc = "serve"
    /\ fileName = <<>>
    /\ environment \in SessionEnvironments
    /\ output = <<>>
    /\ tempFileExists = FALSE
    /\ currentFile = <<>>
    /\ currentLine = 0
    /\ currentSeverity = "null"
    /\ documentVersion = 0
    /\ settings = defaultSettings
    /\ validations = <<>>
    /\ sent = <<>>
    /\ tempFileText = 0
    /\ exitListeners = 0
    /\ hostExited = FALSE
    /\ hasConfigurationCapability \in BOOLEAN
    \* onInitialized has called loadCommands, which has run to its await, or,
    \* without the configuration capability, to its end
    /\ loadCommandsPc = IF hasConfigurationCapability THEN "configuration" ELSE "done"
    /\ commands \in IF hasConfigurationCapability THEN {{}} ELSE {{}, LoadedCommands}
    /\ globalSettings = defaultGlobalSettings
    /\ documents = {}
    /\ documentSettings = {}

NextSession ==
    \/ OnDidChangeContent
    \/ OnDidSave
    \/ OnDidChangeConfiguration
    \/ OnDidClose
    \/ OnDocumentFormatting
    \/ LoadCommands
    \/ \E r \in 1..MaxValidations : ValidateTextDocument(r)

SpecSession == InitSession /\ [][NextSession]_vars

(***************************************************************************)
(* Properties of the server.                                               *)
(***************************************************************************)
\* the call r has read the settings
HasBegun(r) == r \in 1..Len(validations) /\ validations[r].pc # "settings"
\* the notifications sent by call r
SentBy(r) == {k \in 1..Len(sent) : sent[k].validation = r}
\* the version of the text from which notification k was computed
VersionOfNotification(k) == validations[sent[k].validation].version

\* C14 as stated: the notifications that carry validator diagnostics are
\* sent in the order of the text versions they were computed from, so the
\* last one sent is never older than one sent before it.
C14_PublishedInSnapshotOrder ==
    \A a, b \in 1..Len(sent) :
        (/\ a < b
         /\ validations[sent[a].validation].validated
         /\ validations[sent[b].validation].validated)
            => VersionOfNotification(a) <= VersionOfNotification(b)

\* call r was caused by a content change and found validation enabled
IsEnabledChange(r) ==
    HasBegun(r) /\ validations[r].cause = "change" /\ validations[r].settings.enable
\* validator diagnostics of the text call r read, or of a later text, were sent
OwnDiagnosticsSentFor(r) ==
    /\ HasBegun(r)
    /\ \E k \in 1..Len(sent) :
          \E d \in 1..Len(sent[k].diagnostics) :
              /\ sent[k].diagnostics[d].source = "morpheus-lsp"
              /\ sent[k].diagnostics[d].version >= validations[r].version

\* C15 as stated: while the server keeps running, a content change validated
\* with validation enabled leads to the validator's diagnostics being sent,
\* whether or not the checker process of that call ever finishes.
C15_ChangeLeadsToOwnDiagnostics ==
    \A r \in 1..MaxValidations :
        (IsEnabledChange(r) /\ ~hostExited) ~> (OwnDiagnosticsSentFor(r) \/ hostExited)

\* the calls that do not wait for a checker process do send them
ChangeLeadsToOwnDiagnosticsUnlessWaiting ==
    \A r \in 1..MaxValidations :
        (IsEnabledChange(r) /\ ~hostExited)
            ~> (OwnDiagnosticsSentFor(r) \/ hostExited
                    \/ (HasBegun(r) /\ validations[r].pc = "running"))

\* call r wrote the temporary file
WroteTempFile(r) == HasBegun(r) /\ validations[r].spawned > 0
\* the result of call r has been delivered: its diagnostics were sent
IsDelivered(r) == SentBy(r) # {}
AllValidationsDelivered == \A r \in 1..Len(validations) : IsDelivered(r)

WantsChecker(r) ==
    /\ HasBegun(r)
    /\ validations[r].validated
    /\ validations[r].settings.sexecPath # ""
    /\ \/ validations[r].settings.trigger = "onChange"
       \/ validations[r].settings.trigger = "onSave" /\ validations[r].cause = "save"
\* the executable is missing, the document is no file, the temporary file
\* cannot be written, or the process cannot be started
CheckerCannotRun ==
    \/ ~environment.sexecExists
    \/ environment.scheme # "file"
    \/ ~environment.writable
    \/ ~environment.spawns

\* C17: when the checker cannot run, a call that asks for it sends exactly
\* one notification, holding the validator's diagnostics of the text it read
\* and nothing else, and starts at most one process.
C17_FailedCheckerYieldsOwnDiagnostics ==
    \A r \in 1..Len(validations) :
        (WantsChecker(r) /\ CheckerCannotRun) =>
            /\ Cardinality(SentBy(r)) = 1
            /\ \A k \in SentBy(r) :
                  sent[k].diagnostics = OwnDiagnostics(validations[r].version)
            /\ validations[r].spawned <= 1
            /\ validations[r].pc \in {"failed", "done"}

\* two calls whose process could not be started
C17_Witness ==
    /\ Len(validations) = 2
    /\ ~environment.spawns
    /\ \A r \in 1..2 : WantsChecker(r) /\ validations[r].spawned = 1 /\ IsDelivered(r)
    /\ validations[1].version < validations[2].version

\* C18: a call reaches validateWithSexec only with validation enabled, a
\* checker path configured, and the trigger setting onChange, or onSave for
\* a call caused by a save; never with disabled, and with onSave never for a
\* call caused by a content or configuration change.
C18_CheckerStartedOnlyOnTrigger ==
    \A r \in 1..Len(validations) :
        (HasBegun(r) /\ validations[r].sexec # "not called") =>
            /\ validations[r].settings.enable
            /\ validations[r].settings.sexecPath # ""
            /\ validations[r].settings.trigger # "disabled"
            /\ validations[r].settings.trigger = "onSave" => validations[r].cause = "save"

\* with onSave the call of the opening does not start the checker, the call
\* of the save does
C18_Witness ==
    /\ Len(validations) = 2
    /\ \A r \in 1..2 : HasBegun(r) /\ validations[r].settings.trigger = "onSave"
                          /\ validations[r].settings.sexecPath # ""
    /\ validations[1].cause = "change" /\ validations[1].sexec = "not called"
    /\ validations[2].cause = "save" /\ validations[2].sexec = "spawned"

\* C19: a call that finds validation disabled sends one notification with
\* an empty list, runs neither the validator nor the checker, and returns.
C19_DisabledValidationSendsEmptyList ==
    \A r \in 1..Len(validations) :
        (HasBegun(r) /\ ~validations[r].settings.enable) =>
            /\ ~validations[r].validated
            /\ validations[r].sexec = "not called"
            /\ validations[r].spawned = 0
            /\ validations[r].pc = "done"
            /\ Cardinality(SentBy(r)) = 1
            /\ \A k \in SentBy(r) : sent[k].diagnostics = <<>>

\* diagnostics were sent, validation was switched off, and the call of the
\* configuration change sent the empty list after them
C19_Witness ==
    /\ Len(validations) = 2
    /\ Len(sent) = 2
    /\ sent[1].validation = 1 /\ sent[1].diagnostics # <<>>
    /\ sent[2].validation = 2 /\ sent[2].diagnostics = <<>>
    /\ validations[2].cause = "configuration"
    /\ ~validations[2].settings.enable

(***************************************************************************)
(* The temporary file of a running checker process.                        *)
(***************************************************************************)
IsRunning(r) == r \in 1..Len(validations) /\ validations[r].pc = "running"

\* the temporary file exists and holds the text call r wrote
TempFileIsOf(r) == tempFileExists /\ tempFileText = validations[r].version

\* C36: while the checker process of a validation call is running, the
\* temporary file written for that call exists and holds the text of that
\* call, whatever other calls for the document do meanwhile.
C36_TempFileOfRunningChecker ==
    \A r \in 1..Len(validations) : (IsRunning(r) /\ ~hostExited) => TempFileIsOf(r)

\* what the code keeps of C36: the file of a running process is intact as
\* long as no other call has written the temporary file
TempFileOfOnlyChecker ==
    \A r \in 1..Len(validations) :
        (/\ IsRunning(r)
         /\ ~hostExited
         /\ \A q \in 1..Len(validations) : WroteTempFile(q) => q = r)
            => TempFileIsOf(r)

(***************************************************************************)
(* The command table the published diagnostics were computed with.         *)
(***************************************************************************)
\* no call of validateTextDocument is waiting for its settings or its checker
NoValidationPending ==
    \A r \in 1..Len(validations) : validations[r].pc \notin {"settings", "running", "failed"}

\* the call that sent the last notification
LastPublisher == sent[Len(sent)].validation

CommandTableLoaded == loadCommandsPc = "done" /\ commands = LoadedCommands

\* the last notification carries the result of validateText on another table
\* than the one loaded
PublishedWithAnotherTable ==
    /\ sent # <<>>
    /\ validations[LastPublisher].validated
    /\ validations[LastPublisher].commands # commands

\* C37: once the command table is loaded and every call of
\* validateTextDocument has come to its end, the diagnostics last published
\* for the open document were computed with the loaded table.
C37_PublishedWithLoadedTable ==
    (CommandTableLoaded /\ TheDocument \in documents /\ NoValidationPending)
        => ~PublishedWithAnotherTable

\* what the code keeps of C37: without the configuration capability
\* loadCommands returns before the first event, and every call reads the
\* table as loaded
TableReadAfterLoading ==
    ~hasConfigurationCapability =>
        \A r \in 1..Len(validations) :
            validations[r].validated => validations[r].commands = commands

(***************************************************************************)
(* The global settings of a server whose client lacks                      *)
(* workspace/configuration.                                                *)
(***************************************************************************)
\* call r ended when it read settings.morpheus.validation
Threw(r) == r \in 1..Len(validations) /\ validations[r].pc = "threw"

\* C38: without the configuration capability, globalSettings keeps the key
\* morpheus through every configuration change, and no call of
\* validateTextDocument fails to read validation.enable.
C38_GlobalSettingsKeepShape ==
    ~hasConfigurationCapability =>
        /\ globalSettings.hasMorpheus
        /\ \A r \in 1..Len(validations) : ~Threw(r)

\* what the code keeps of C38: a call fails only with settings taken from a
\* notification that carried a morpheus section, and never when the client
\* answers workspace/configuration requests
ThrowsOnlyOnUnwrappedSection ==
    \A r \in 1..Len(validations) :
        Threw(r) => (~hasConfigurationCapability /\ ~validations[r].resolved.hasMorpheus)

(***************************************************************************)
(* The settings cache.                                                     *)
(***************************************************************************)
\* a step that puts a key into the cache
CreatesEntry == documentSettings' \ documentSettings # {}
\* a step that takes a key out of the cache
RemovesEntry == documentSettings \ documentSettings' # {}

\* C40: the settings cache holds keys of open documents only; a key is put
\* into it only by a handler of an event or request for a document that is
\* open, and a key leaves it only when its document is closed (a
\* configuration change clears the cache and the revalidation that follows
\* in the same handler puts the keys of the open documents back).
C40_CacheHoldsOpenDocumentsOnly ==
    /\ [](documentSettings \subseteq documents)
    /\ [][/\ CreatesEntry => documentSettings' \ documentSettings \subseteq documents'
          /\ RemovesEntry =>
                documentSettings \ documentSettings' \subseteq documents \ documents'
         ]_vars

\* the document was opened with the configuration capability, its key was
\* cached, and it has been closed again
C40_Witness ==
    /\ hasConfigurationCapability
    /\ documentVersion > 0
    /\ documents = {}
    /\ documentSettings = {}
    /\ validations # <<>>
====
